---- MODULE Spec2Model ----
(***************************************************************************)
(* Row codec of src/backend/access/common/heaptuple.c: building a heap     *)
(* tuple from values/isnull arrays, decoding it again, the attribute       *)
(* offset cache kept in the column descriptors (attcacheoff) and the       *)
(* incremental decoding done through a TupleTableSlot.                     *)
(*                                                                         *)
(* The data area of a tuple is a sequence of bytes (0..255); offset off    *)
(* of the C code is element off + 1 of the sequence.  The base of the data *)
(* area is MAXALIGNed, so aligning the write pointer (fill_val) and        *)
(* aligning an offset (the decoders) agree.  Multi-byte quantities are     *)
(* laid out most significant byte first, the layout in which the 1-byte    *)
(* varlena header is told by its high bit.                                 *)
(***************************************************************************)
EXTENDS Integers, Sequences, FiniteSets, TLC

(***************************************************************************)
(* Bounds of the model.                                                    *)
(***************************************************************************)
\* payload lengths of the small variable-length values are 1..MaxPayload
MaxPayload == 2

(***************************************************************************)
(* Helpers on bytes and sequences.                                         *)
(***************************************************************************)
Max(a, b) == IF a >= b THEN a ELSE b
Min(a, b) == IF a <= b THEN a ELSE b

Zeros(n) == [i \in 1..n |-> 0]

\* payload of n bytes, none of them zero
Payload(n) == [i \in 1..n |-> 97 + ((i - 1) % 26)]

\* the byte at offset off of a memory area; past its end nothing is mapped
ByteAt(mem, off) == IF off >= 0 /\ off < Len(mem) THEN mem[off + 1] ELSE 0

\* the n bytes at offset off
BytesAt(mem, off, n) == [i \in 1..n |-> ByteAt(mem, off + i - 1)]

\* memcpy(buf + off, bytes, Len(bytes)); a copy past the end of the
\* allocation lands in the bytes that follow it
WriteAt(buf, off, bytes) ==
    LET area == IF off > Len(buf) THEN buf \o Zeros(off - Len(buf)) ELSE buf IN
    SubSeq(area, 1, off) \o bytes \o SubSeq(area, off + Len(bytes) + 1, Len(area))

\* bit test: (byte & mask) != 0 for a one-bit mask
BitSet(byte, mask) == (byte \div mask) % 2 = 1
\* byte | mask for a one-bit mask
BitOr(byte, mask) == IF BitSet(byte, mask) THEN byte ELSE byte + mask

\* n as w bytes, most significant first (the value is cut to the width)
RECURSIVE ToBytes(_, _)
ToBytes(n, w) == IF w = 0 THEN <<>> ELSE ToBytes(n \div 256, w - 1) \o <<n % 256>>
RECURSIVE FromBytes(_)
FromBytes(bs) ==
    IF bs = <<>> THEN 0
    ELSE 256 * FromBytes(SubSeq(bs, 1, Len(bs) - 1)) + bs[Len(bs)]

(***************************************************************************)
(* Layout constants and the varlena header macros (postgres.h, tupmacs.h,  *)
(* htup_details.h).                                                        *)
(***************************************************************************)
HIGHBIT == 128
MAXIMUM_ALIGNOF == 8
VARHDRSZ == 4
VARHDRSZ_SHORT == 1
VARHDRSZ_EXTERNAL == 2
VARATT_SHORT_MAX == 127
VARTAG_INDIRECT == 1
VARTAG_EXPANDED_RO == 2
VARTAG_EXPANDED_RW == 3
VARTAG_ONDISK == 18
\* offsetof(HeapTupleHeaderData, t_bits)
SizeofHeapTupleHeader == 23
\* offsetof(MinimalTupleData, t_bits)
SizeofMinimalTupleHeader == 15
MINIMAL_TUPLE_OFFSET == 8
SizeofOid == 4

HEAP_HASNULL == "HEAP_HASNULL"
HEAP_HASVARWIDTH == "HEAP_HASVARWIDTH"
HEAP_HASEXTERNAL == "HEAP_HASEXTERNAL"
HEAP_HASOID == "HEAP_HASOID"

TYPEALIGN(a, len) == ((len + a - 1) \div a) * a
MAXALIGN(len) == TYPEALIGN(MAXIMUM_ALIGNOF, len)
BITMAPLEN(natts) == (natts + 7) \div 8

\* att_align_nominal: 'i' int, 'c' none, 'd' double, otherwise short
att_align_nominal(cur_offset, attalign) ==
    IF attalign = "i" THEN TYPEALIGN(4, cur_offset)
    ELSE IF attalign = "c" THEN cur_offset
    ELSE IF attalign = "d" THEN TYPEALIGN(8, cur_offset)
    ELSE TYPEALIGN(2, cur_offset)

VARATT_IS_4B(ptr) == ByteAt(ptr, 0) < 128
VARATT_IS_4B_U(ptr) == ByteAt(ptr, 0) < 64
VARATT_IS_4B_C(ptr) == ByteAt(ptr, 0) >= 64 /\ ByteAt(ptr, 0) < 128
VARATT_IS_1B(ptr) == ByteAt(ptr, 0) >= 128
VARATT_IS_1B_E(ptr) == ByteAt(ptr, 0) = 128
VARATT_NOT_PAD_BYTE(ptr) == ByteAt(ptr, 0) # 0
VARSIZE_4B(ptr) == FromBytes(<<ByteAt(ptr, 0) % 64, ByteAt(ptr, 1), ByteAt(ptr, 2), ByteAt(ptr, 3)>>)
VARSIZE_1B(ptr) == ByteAt(ptr, 0) % 128
VARTAG_1B_E(ptr) == ByteAt(ptr, 1)
VARTAG_IS_EXPANDED(tag) == tag = VARTAG_EXPANDED_RO \/ tag = VARTAG_EXPANDED_RW
VARTAG_SIZE(tag) ==
    IF tag = VARTAG_INDIRECT THEN 8
    ELSE IF VARTAG_IS_EXPANDED(tag) THEN 8
    ELSE IF tag = VARTAG_ONDISK THEN 16
    ELSE 0

VARATT_IS_SHORT(ptr) == VARATT_IS_1B(ptr)
VARATT_IS_EXTERNAL(ptr) == VARATT_IS_1B_E(ptr)
VARATT_IS_EXTERNAL_EXPANDED(ptr) ==
    VARATT_IS_EXTERNAL(ptr) /\ VARTAG_IS_EXPANDED(VARTAG_1B_E(ptr))
VARSIZE(ptr) == VARSIZE_4B(ptr)
VARSIZE_SHORT(ptr) == VARSIZE_1B(ptr)
VARSIZE_EXTERNAL(ptr) == VARHDRSZ_EXTERNAL + VARTAG_SIZE(VARTAG_1B_E(ptr))
VARSIZE_ANY(ptr) ==
    IF VARATT_IS_1B_E(ptr) THEN VARSIZE_EXTERNAL(ptr)
    ELSE IF VARATT_IS_1B(ptr) THEN VARSIZE_1B(ptr)
    ELSE VARSIZE_4B(ptr)
VARATT_CONVERTED_SHORT_SIZE(ptr) == VARSIZE(ptr) - VARHDRSZ + VARHDRSZ_SHORT
VARATT_CAN_MAKE_SHORT(ptr) ==
    VARATT_IS_4B_U(ptr) /\ VARATT_CONVERTED_SHORT_SIZE(ptr) <= VARATT_SHORT_MAX
\* VARDATA of a 4-byte-header value
VARDATA(ptr) == BytesAt(ptr, VARHDRSZ, VARSIZE(ptr) - VARHDRSZ)

\* strlen of the C string at the start of mem
RECURSIVE strlen_from(_, _)
strlen_from(mem, off) ==
    IF off >= Len(mem) \/ mem[off + 1] = 0 THEN 0 ELSE 1 + strlen_from(mem, off + 1)
strlen(mem) == strlen_from(mem, 0)

(***************************************************************************)
(* Datums.  An input Datum is the word v (a by-value scalar), the memory   *)
(* mem a by-reference Datum points to, and for an expanded object the flat *)
(* image eoh that EOH_flatten_into produces.  A Datum a decoder returns is *)
(* the word v together with ptr, the offset in the tuple's data area it    *)
(* points to (NoPtr for a by-value scalar and for the null Datum, and      *)
(* MissingPtr(i) for the entry i of the Missing-Values table).             *)
(***************************************************************************)
NoPtr == -1
MissingPtr(i) == 0 - (i + 1)

IntDatum(n) == [v |-> n, mem |-> <<>>, eoh |-> <<>>]
PtrDatum(bytes) == [v |-> 0, mem |-> bytes, eoh |-> <<>>]
NullDatum == [v |-> 0, mem |-> <<>>, eoh |-> <<>>]

\* in-memory images of variable-length values
Header4B(size) == ToBytes(size, 4)
ShortVarlena(payload) == <<128 + VARHDRSZ_SHORT + Len(payload)>> \o payload
FullVarlena(payload) == Header4B(VARHDRSZ + Len(payload)) \o payload
CompressedVarlena(payload) ==
    <<64>> \o SubSeq(Header4B(VARHDRSZ + Len(payload)), 2, 4) \o payload
ExternalOnDisk == <<128, VARTAG_ONDISK>> \o [i \in 1..16 |-> 200 + i]
ExpandedDatum(flat) ==
    [v |-> 0, mem |-> <<128, VARTAG_EXPANDED_RW>> \o [i \in 1..8 |-> 240], eoh |-> flat]
EOH_get_flat_size(datum) == Len(datum.eoh)

\* att_align_datum, att_align_pointer, att_addlength_pointer / _datum
att_align_datum(cur_offset, attalign, attlen, attdatum) ==
    IF attlen = -1 /\ VARATT_IS_SHORT(attdatum.mem) THEN cur_offset
    ELSE att_align_nominal(cur_offset, attalign)
att_align_pointer(cur_offset, attalign, attlen, attptr) ==
    IF attlen = -1 /\ VARATT_NOT_PAD_BYTE(attptr) THEN cur_offset
    ELSE att_align_nominal(cur_offset, attalign)
att_addlength_pointer(cur_offset, attlen, attptr) ==
    IF attlen > 0 THEN cur_offset + attlen
    ELSE IF attlen = -1 THEN cur_offset + VARSIZE_ANY(attptr)
    ELSE cur_offset + strlen(attptr) + 1
att_addlength_datum(cur_offset, attlen, attdatum) ==
    att_addlength_pointer(cur_offset, attlen, attdatum.mem)

\* the tail of a memory area from offset off on
MemFrom(mem, off) == SubSeq(mem, off + 1, Len(mem))

\* store_att_byval / fetch_att: a scalar of attlen bytes
store_att_byval(datum, attlen) == ToBytes(datum.v, attlen)
\* (an int16 or int32 is read signed)
fetch_att(tp, off, attlen) ==
    IF attlen > 1 /\ ByteAt(tp, off) >= 128
    THEN FromBytes(<<ByteAt(tp, off) - 256>> \o BytesAt(tp, off + 1, attlen - 1))
    ELSE FromBytes(BytesAt(tp, off, attlen))
\* fetchatt: the scalar itself, or a pointer into the tuple
fetchatt(att, tp, off) ==
    IF att.attbyval THEN [v |-> fetch_att(tp, off, att.attlen), ptr |-> NoPtr]
    ELSE [v |-> 0, ptr |-> off]
NullResult == [v |-> 0, ptr |-> NoPtr]

ATT_IS_PACKABLE(att) == att.attlen = -1 /\ att.attstorage # "p"
VARLENA_ATT_IS_PACKABLE(att) == att.attstorage # "p"

(***************************************************************************)
(* fill_val: one column of a tuple under construction.  The state st of    *)
(* the construction is the null bitmap bits with the index bit of its      *)
(* current byte and the mask bitmask, the data area buf with the write     *)
(* cursor data, and the header's infomask.  hasbit says that a bitmap is   *)
(* being built (bit != NULL).                                              *)
(***************************************************************************)
\* an encoder that sets the bit of a null column instead
fill_val_bit_null(hasbit, st, isnull) ==
    IF ~hasbit THEN st
    ELSE LET adv == IF st.bitmask # HIGHBIT
                    THEN [st EXCEPT !.bitmask = 2 * @]
                    ELSE [st EXCEPT !.bit = @ + 1,
                                    !.bits = WriteAt(@, st.bit + 1, <<0>>),
                                    !.bitmask = 1]
         IN  IF isnull
             THEN [adv EXCEPT !.infomask = @ \cup {HEAP_HASNULL},
                              !.bits = WriteAt(@, adv.bit,
                                           <<BitOr(ByteAt(@, adv.bit), adv.bitmask)>>)]
             ELSE adv

\* lines 126-144: the column's bit in the null bitmap
fill_val_bit(hasbit, st, isnull) ==
    IF ~hasbit THEN st
    ELSE LET adv == IF st.bitmask # HIGHBIT
                    THEN [st EXCEPT !.bitmask = 2 * @]
                    ELSE [st EXCEPT !.bit = @ + 1,
                                    !.bits = WriteAt(@, st.bit + 1, <<0>>),
                                    !.bitmask = 1]
         IN  IF isnull
             THEN [adv EXCEPT !.infomask = @ \cup {HEAP_HASNULL}]
             ELSE [adv EXCEPT !.bits =
                       WriteAt(@, adv.bit, <<BitOr(ByteAt(@, adv.bit), adv.bitmask)>>)]

\* an encoder that packs whatever the column's storage strategy
fill_val_packs_any(att, val) == VARATT_CAN_MAKE_SHORT(val)

\* lines 192-193: the test that converts a value to the short form
fill_val_packs(att, val) == VARLENA_ATT_IS_PACKABLE(att) /\ VARATT_CAN_MAKE_SHORT(val)

\* an encoder that aligns a null-terminated string by its declared class
fill_val_data_cstring_aligned(att, data, datum) ==
    IF att.attbyval
    THEN [at |-> att_align_nominal(data, att.attalign),
          bytes |-> store_att_byval(datum, att.attlen),
          flags |-> {}]
    ELSE IF att.attlen = -1
    THEN LET val == datum.mem IN
         IF VARATT_IS_EXTERNAL(val)
         THEN IF VARATT_IS_EXTERNAL_EXPANDED(val)
              THEN [at |-> att_align_nominal(data, att.attalign),
                    bytes |-> BytesAt(datum.eoh, 0, EOH_get_flat_size(datum)),
                    flags |-> {HEAP_HASVARWIDTH}]
              ELSE [at |-> data,
                    bytes |-> BytesAt(val, 0, VARSIZE_EXTERNAL(val)),
                    flags |-> {HEAP_HASVARWIDTH, HEAP_HASEXTERNAL}]
         ELSE IF VARATT_IS_SHORT(val)
         THEN [at |-> data,
               bytes |-> BytesAt(val, 0, VARSIZE_SHORT(val)),
               flags |-> {HEAP_HASVARWIDTH}]
         ELSE IF fill_val_packs(att, val)
         THEN [at |-> data,
               bytes |-> <<128 + VARATT_CONVERTED_SHORT_SIZE(val)>>
                         \o BytesAt(val, VARHDRSZ, VARATT_CONVERTED_SHORT_SIZE(val) - 1),
               flags |-> {HEAP_HASVARWIDTH}]
         ELSE [at |-> att_align_nominal(data, att.attalign),
               bytes |-> BytesAt(val, 0, VARSIZE(val)),
               flags |-> {HEAP_HASVARWIDTH}]
    ELSE IF att.attlen = -2
    THEN [at |-> att_align_nominal(data, att.attalign),
          bytes |-> BytesAt(datum.mem, 0, strlen(datum.mem) + 1),
          flags |-> {HEAP_HASVARWIDTH}]
    ELSE [at |-> att_align_nominal(data, att.attalign),
          bytes |-> BytesAt(datum.mem, 0, att.attlen),
          flags |-> {}]

\* lines 150-224: where the value goes, the bytes written there and the
\* infomask bits raised, for the write cursor at data
fill_val_data(att, data, datum) ==
    IF att.attbyval
    THEN [at |-> att_align_nominal(data, att.attalign),
          bytes |-> store_att_byval(datum, att.attlen),
          flags |-> {}]
    ELSE IF att.attlen = -1
    THEN LET val == datum.mem IN
         IF VARATT_IS_EXTERNAL(val)
         THEN IF VARATT_IS_EXTERNAL_EXPANDED(val)
              THEN [at |-> att_align_nominal(data, att.attalign),
                    bytes |-> BytesAt(datum.eoh, 0, EOH_get_flat_size(datum)),
                    flags |-> {HEAP_HASVARWIDTH}]
              ELSE [at |-> data,
                    bytes |-> BytesAt(val, 0, VARSIZE_EXTERNAL(val)),
                    flags |-> {HEAP_HASVARWIDTH, HEAP_HASEXTERNAL}]
         ELSE IF VARATT_IS_SHORT(val)
         THEN [at |-> data,
               bytes |-> BytesAt(val, 0, VARSIZE_SHORT(val)),
               flags |-> {HEAP_HASVARWIDTH}]
         ELSE IF fill_val_packs(att, val)
         THEN [at |-> data,
               bytes |-> <<128 + VARATT_CONVERTED_SHORT_SIZE(val)>>
                         \o BytesAt(val, VARHDRSZ, VARATT_CONVERTED_SHORT_SIZE(val) - 1),
               flags |-> {HEAP_HASVARWIDTH}]
         ELSE [at |-> att_align_nominal(data, att.attalign),
               bytes |-> BytesAt(val, 0, VARSIZE(val)),
               flags |-> {HEAP_HASVARWIDTH}]
    ELSE IF att.attlen = -2
    THEN [at |-> data,
          bytes |-> BytesAt(datum.mem, 0, strlen(datum.mem) + 1),
          flags |-> {HEAP_HASVARWIDTH}]
    ELSE [at |-> att_align_nominal(data, att.attalign),
          bytes |-> BytesAt(datum.mem, 0, att.attlen),
          flags |-> {}]

\* st.ats and st.lens record where each column went (NoPtr for a column
\* written as null) and how many bytes it took: they are not part of the
\* tuple, only the reference the decoders are judged by
fill_val(att, hasbit, st, datum, isnull) ==
    LET s1 == fill_val_bit(hasbit, st, isnull) IN
    IF hasbit /\ isnull
    THEN [s1 EXCEPT !.ats = Append(@, NoPtr), !.lens = Append(@, 0)]
    ELSE LET w == fill_val_data(att, s1.data, datum) IN
         [s1 EXCEPT !.buf = WriteAt(@, w.at, w.bytes),
                    !.data = w.at + Len(w.bytes),
                    !.infomask = @ \cup w.flags,
                    !.ats = Append(@, w.at),
                    !.lens = Append(@, Len(w.bytes))]

(***************************************************************************)
(* heap_compute_data_size: the size of the data area of a tuple to build.  *)
(***************************************************************************)
\* a size computation that does not anticipate the conversion to short form
compute_data_size_att_unpacked(atti, data_length, val, null) ==
    IF null THEN data_length
    ELSE IF atti.attlen = -1 /\ VARATT_IS_EXTERNAL_EXPANDED(val.mem)
    THEN att_align_nominal(data_length, atti.attalign) + EOH_get_flat_size(val)
    ELSE att_addlength_datum(
             att_align_datum(data_length, atti.attalign, atti.attlen, val),
             atti.attlen, val)

\* lines 258-289: the running total after column atti
compute_data_size_att(atti, data_length, val, null) ==
    IF null THEN data_length
    ELSE IF ATT_IS_PACKABLE(atti) /\ VARATT_CAN_MAKE_SHORT(val.mem)
    THEN data_length + VARATT_CONVERTED_SHORT_SIZE(val.mem)
    ELSE IF atti.attlen = -1 /\ VARATT_IS_EXTERNAL_EXPANDED(val.mem)
    THEN att_align_nominal(data_length, atti.attalign) + EOH_get_flat_size(val)
    ELSE att_addlength_datum(
             att_align_datum(data_length, atti.attalign, atti.attlen, val),
             atti.attlen, val)

\* the loop over the columns first..last, in order, from the length
\* data_length on (the range is walked half by half, the second half from
\* the value half of the first, which keeps the evaluation of a schema of
\* many columns shallow)
RECURSIVE compute_data_size_loop(_, _, _, _, _, _)
compute_data_size_loop(att, values, isnull, first, last, data_length) ==
    IF first > last THEN data_length
    ELSE IF first = last
    THEN compute_data_size_att(att[first], data_length, values[first], isnull[first])
    ELSE LET mid == (first + last) \div 2 IN
         CHOOSE total \in
             {compute_data_size_loop(att, values, isnull, mid + 1, last, half) :
                 half \in {compute_data_size_loop(att, values, isnull, first, mid,
                                                  data_length)}} : TRUE

heap_compute_data_size(tupleDesc, values, isnull) ==
    compute_data_size_loop(tupleDesc, values, isnull, 1, Len(tupleDesc), 0)

(***************************************************************************)
(* heap_fill_tuple: the data area, the null bitmap and the infomask bits   *)
(* of a tuple.  buf is the caller's data area and bits its bitmap area     *)
(* (empty when bit = NULL).  The result is the construction state after    *)
(* the last column; its cursor data is what the closing assertion compares *)
(* with data_size.                                                         *)
(***************************************************************************)
\* the loop over the columns first..last, in order, from the construction
\* state st on (walked half by half as well)
RECURSIVE fill_tuple_loop(_, _, _, _, _, _, _)
fill_tuple_loop(att, values, isnull, hasbit, first, last, st) ==
    IF first > last THEN st
    ELSE IF first = last
    THEN fill_val(att[first], hasbit, st, values[first], isnull[first])
    ELSE LET mid == (first + last) \div 2 IN
         CHOOSE done \in
             {fill_tuple_loop(att, values, isnull, hasbit, mid + 1, last, half) :
                 half \in {fill_tuple_loop(att, values, isnull, hasbit, first, mid,
                                           st)}} : TRUE

\* an encoder that adds the bits of the row to the ones the header holds
heap_fill_tuple_merge(tupleDesc, values, isnull, buf, infomask, hasbit, bits) ==
    fill_tuple_loop(tupleDesc, values, isnull, hasbit, 1, Len(tupleDesc),
        [bit |-> -1,
         bitmask |-> IF hasbit THEN HIGHBIT ELSE 0,
         bits |-> bits,
         buf |-> buf,
         data |-> 0,
         infomask |-> infomask,
         ats |-> <<>>,
         lens |-> <<>>])

\* lines 327-354; line 339 clears the three bits the loop computes
heap_fill_tuple(tupleDesc, values, isnull, buf, infomask, hasbit, bits) ==
    fill_tuple_loop(tupleDesc, values, isnull, hasbit, 1, Len(tupleDesc),
        [bit |-> -1,
         bitmask |-> IF hasbit THEN HIGHBIT ELSE 0,
         bits |-> bits,
         buf |-> buf,
         data |-> 0,
         infomask |-> infomask \ {HEAP_HASNULL, HEAP_HASVARWIDTH, HEAP_HASEXTERNAL},
         ats |-> <<>>,
         lens |-> <<>>])

(***************************************************************************)
(* heap_form_tuple (heap_form_tuple_shard) and heap_form_minimal_tuple.    *)
(* A tuple is its recorded length t_len, its header fields t_hoff, natts   *)
(* and t_infomask, the bitmap bytes t_bits and the data area; fill is the  *)
(* number of bytes heap_fill_tuple advanced its cursor by, ats and lens    *)
(* the offset it wrote each column at and the bytes it wrote there, and    *)
(* t_self, t_ctid, t_tableOid are the identity fields.                     *)
(***************************************************************************)
InvalidItemPointer == 0
InvalidOid == 0

\* a test that looks at the first column only
form_hasnull_first(isnull) == Len(isnull) > 0 /\ isnull[1]

\* lines 859-866: is any column null
form_hasnull(isnull) == \E i \in 1..Len(isnull) : isnull[i]

\* lines 871-879: the header length before alignment
form_header_len(base, natts, hasnull, tdhasoid) ==
    base + (IF hasnull THEN BITMAPLEN(natts) ELSE 0) + (IF tdhasoid THEN SizeofOid ELSE 0)

\* an allocation that is not cleared
palloc(n) == [i \in 1..n |-> 170]

\* the palloc0 of lines 889 and 1940: the allocation starts out all zero
palloc0(n) == Zeros(n)

form_tuple_common(tupleDescriptor, values, isnull, tdhasoid, base, minimal) ==
    LET natts == Len(tupleDescriptor)
        hasnull == form_hasnull(isnull)
        hoff == MAXALIGN(form_header_len(base, natts, hasnull, tdhasoid))
        data_len == heap_compute_data_size(tupleDescriptor, values, isnull)
        st == heap_fill_tuple(tupleDescriptor, values, isnull,
                  palloc0(data_len),
                  IF tdhasoid THEN {HEAP_HASOID} ELSE {},
                  hasnull,
                  IF hasnull THEN palloc0(BITMAPLEN(natts)) ELSE <<>>)
    IN  [t_len |-> hoff + data_len,
         t_hoff |-> IF minimal THEN hoff + MINIMAL_TUPLE_OFFSET ELSE hoff,
         natts |-> natts,
         t_infomask |-> st.infomask,
         t_bits |-> st.bits,
         data |-> st.buf,
         fill |-> st.data,
         ats |-> st.ats,
         lens |-> st.lens,
         minimal |-> minimal,
         t_self |-> InvalidItemPointer,
         t_ctid |-> InvalidItemPointer,
         t_tableOid |-> InvalidOid,
         t_oid |-> InvalidOid]

\* the most columns a tuple can have (htup_details.h)
MaxTupleAttributeNumber == 1664

\* an encoder that builds a tuple of any number of columns
form_too_many_columns_never(numberOfAttributes) == FALSE

\* lines 850 and 1902: numberOfAttributes > MaxTupleAttributeNumber
form_too_many_columns(numberOfAttributes) ==
    numberOfAttributes > MaxTupleAttributeNumber

\* what the ereport(ERROR) of lines 851-854 and 1903-1906 leaves in place
\* of a tuple: nothing was allocated
TooManyColumns == [err |-> "ERRCODE_TOO_MANY_COLUMNS"]

heap_form_tuple(tupleDescriptor, values, isnull, tdhasoid) ==
    IF form_too_many_columns(Len(tupleDescriptor)) THEN TooManyColumns
    ELSE form_tuple_common(tupleDescriptor, values, isnull, tdhasoid,
                           SizeofHeapTupleHeader, FALSE)

heap_form_minimal_tuple(tupleDescriptor, values, isnull, tdhasoid) ==
    IF form_too_many_columns(Len(tupleDescriptor)) THEN TooManyColumns
    ELSE form_tuple_common(tupleDescriptor, values, isnull, tdhasoid,
                           SizeofMinimalTupleHeader, TRUE)

HeapTupleHasNulls(tuple) == HEAP_HASNULL \in tuple.t_infomask
HeapTupleNoNulls(tuple) == ~HeapTupleHasNulls(tuple)
HeapTupleHasVarWidth(tuple) == HEAP_HASVARWIDTH \in tuple.t_infomask
HeapTupleHeaderGetNatts(tuple) == tuple.natts

\* att_isnull(ATT, BITS): !(BITS[ATT >> 3] & (1 << (ATT & 0x07)))
Pow2(n) == IF n = 0 THEN 1 ELSE IF n = 1 THEN 2 ELSE IF n = 2 THEN 4
           ELSE IF n = 3 THEN 8 ELSE IF n = 4 THEN 16 ELSE IF n = 5 THEN 32
           ELSE IF n = 6 THEN 64 ELSE 128
att_isnull(ATT, BITS) == ~BitSet(ByteAt(BITS, ATT \div 8), Pow2(ATT % 8))

(***************************************************************************)
(* The Missing-Values table of the schema (tupleDesc->constr->missing): a  *)
(* sequence with one entry [ammissing, ammissingPresent] per column, or    *)
(* the empty sequence when the schema has no table.                        *)
(***************************************************************************)
NoMissing == <<>>

\* getmissingattr, attnum counted from 1
getmissingattr(tupleDesc, missing, attnum) ==
    LET att == tupleDesc[attnum] IN
    IF att.atthasmissing /\ ~att.attisdropped /\ missing[attnum].ammissingPresent
    THEN [value |-> missing[attnum].ammissing, isnull |-> FALSE]
    ELSE [value |-> NullResult, isnull |-> TRUE]

(***************************************************************************)
(* heap_deform_tuple.  The loop state s holds the offset off, the flag     *)
(* slow, the schema's cached offsets cache (attcacheoff of each column, -1 *)
(* when unset) and the caller's values / isnull arrays.                    *)
(***************************************************************************)
\* what the caller's arrays hold before the call
Unwritten == [v |-> 0 - 1, ptr |-> NoPtr]

\* a decoder that takes a cached offset on the slow path as well
heap_deform_use_cache_slow(slow, cacheoff) == cacheoff >= 0

\* line 1187: the test that lets heap_deform_tuple take the cached offset
heap_deform_use_cache(slow, cacheoff) == ~slow /\ cacheoff >= 0

\* lines 1175-1221: one iteration, attnum counted from 0
heap_deform_att(thisatt, tuple, attnum, s) ==
    LET tp == tuple.data
        i == attnum + 1
    IN
    IF HeapTupleHasNulls(tuple) /\ att_isnull(attnum, tuple.t_bits)
    THEN [s EXCEPT !.values[i] = NullResult, !.isnull[i] = TRUE, !.slow = TRUE]
    ELSE LET pos ==
                 IF heap_deform_use_cache(s.slow, s.cache[i])
                 THEN [off |-> s.cache[i], slow |-> s.slow, cache |-> s.cache]
                 ELSE IF thisatt.attlen = -1
                 THEN IF ~s.slow /\ s.off = att_align_nominal(s.off, thisatt.attalign)
                      THEN [off |-> s.off, slow |-> s.slow,
                            cache |-> [s.cache EXCEPT ![i] = s.off]]
                      ELSE [off |-> att_align_pointer(s.off, thisatt.attalign, -1,
                                                      MemFrom(tp, s.off)),
                            slow |-> TRUE, cache |-> s.cache]
                 ELSE LET o == att_align_nominal(s.off, thisatt.attalign) IN
                      [off |-> o, slow |-> s.slow,
                       cache |-> IF ~s.slow THEN [s.cache EXCEPT ![i] = o] ELSE s.cache]
         IN  [values |-> [s.values EXCEPT ![i] = fetchatt(thisatt, tp, pos.off)],
              isnull |-> [s.isnull EXCEPT ![i] = FALSE],
              off |-> att_addlength_pointer(pos.off, thisatt.attlen, MemFrom(tp, pos.off)),
              slow |-> pos.slow \/ thisatt.attlen <= 0,
              cache |-> pos.cache]

RECURSIVE heap_deform_loop(_, _, _, _, _)
heap_deform_loop(att, tuple, attnum, natts, s) ==
    IF attnum >= natts THEN s
    ELSE heap_deform_loop(att, tuple, attnum + 1, natts,
                          heap_deform_att(att[attnum + 1], tuple, attnum, s))

\* a decoder that reads every column the tuple does not have as null
deform_missing_null(tupleDesc, missing, natts, s) ==
    [s EXCEPT
        !.values = [i \in 1..Len(tupleDesc) |->
                       IF i > natts THEN NullResult ELSE s.values[i]],
        !.isnull = [i \in 1..Len(tupleDesc) |->
                       IF i > natts THEN TRUE ELSE s.isnull[i]]]

\* lines 1228-1233: the columns the tuple does not have
deform_missing(tupleDesc, missing, natts, s) ==
    [s EXCEPT
        !.values = [i \in 1..Len(tupleDesc) |->
                       IF i > natts THEN getmissingattr(tupleDesc, missing, i).value
                       ELSE s.values[i]],
        !.isnull = [i \in 1..Len(tupleDesc) |->
                       IF i > natts THEN getmissingattr(tupleDesc, missing, i).isnull
                       ELSE s.isnull[i]]]

heap_deform_tuple(tuple, tupleDesc, missing, cache) ==
    LET tdesc_natts == Len(tupleDesc)
        natts == Min(HeapTupleHeaderGetNatts(tuple), tdesc_natts)
        s0 == [values |-> [i \in 1..tdesc_natts |-> Unwritten],
               isnull |-> [i \in 1..tdesc_natts |-> TRUE],
               off |-> 0, slow |-> FALSE, cache |-> cache]
    IN  deform_missing(tupleDesc, missing, natts,
                       heap_deform_loop(tupleDesc, tuple, 0, natts, s0))

(***************************************************************************)
(* slot_deform_tuple.  A slot is tts_nvalid, tts_off, tts_slow and the     *)
(* arrays tts_values / tts_isnull; its tuple and descriptor are the        *)
(* state's current tuple and schema.                                       *)
(***************************************************************************)
\* a decoder that takes a cached offset on the slow path as well
slot_deform_use_cache_slow(slow, cacheoff) == cacheoff >= 0

\* line 1304: the test that lets slot_deform_tuple take the cached offset
slot_deform_use_cache(slow, cacheoff) == ~slow /\ cacheoff >= 0

\* a decoder that trusts the cached offsets again after a fixed-width column
slot_deform_att_regain(thisatt, tuple, attnum, s) ==
    LET tp == tuple.data
        i == attnum + 1
    IN
    IF HeapTupleHasNulls(tuple) /\ att_isnull(attnum, tuple.t_bits)
    THEN [s EXCEPT !.values[i] = NullResult, !.isnull[i] = TRUE, !.slow = TRUE]
    ELSE LET pos ==
                 IF slot_deform_use_cache(s.slow, s.cache[i])
                 THEN [off |-> s.cache[i], slow |-> s.slow, cache |-> s.cache]
                 ELSE IF thisatt.attlen = -1
                 THEN IF ~s.slow /\ s.off = att_align_nominal(s.off, thisatt.attalign)
                      THEN [off |-> s.off, slow |-> s.slow,
                            cache |-> [s.cache EXCEPT ![i] = s.off]]
                      ELSE [off |-> att_align_pointer(s.off, thisatt.attalign, -1,
                                                      MemFrom(tp, s.off)),
                            slow |-> TRUE, cache |-> s.cache]
                 ELSE LET o == att_align_nominal(s.off, thisatt.attalign) IN
                      [off |-> o, slow |-> s.slow,
                       cache |-> IF ~s.slow THEN [s.cache EXCEPT ![i] = o] ELSE s.cache]
         IN  [values |-> [s.values EXCEPT ![i] = fetchatt(thisatt, tp, pos.off)],
              isnull |-> [s.isnull EXCEPT ![i] = FALSE],
              off |-> att_addlength_pointer(pos.off, thisatt.attlen, MemFrom(tp, pos.off)),
              slow |-> thisatt.attlen <= 0,
              cache |-> pos.cache]

\* lines 1292-1338: one iteration, attnum counted from 0
slot_deform_att(thisatt, tuple, attnum, s) ==
    LET tp == tuple.data
        i == attnum + 1
    IN
    IF HeapTupleHasNulls(tuple) /\ att_isnull(attnum, tuple.t_bits)
    THEN [s EXCEPT !.values[i] = NullResult, !.isnull[i] = TRUE, !.slow = TRUE]
    ELSE LET pos ==
                 IF slot_deform_use_cache(s.slow, s.cache[i])
                 THEN [off |-> s.cache[i], slow |-> s.slow, cache |-> s.cache]
                 ELSE IF thisatt.attlen = -1
                 THEN IF ~s.slow /\ s.off = att_align_nominal(s.off, thisatt.attalign)
                      THEN [off |-> s.off, slow |-> s.slow,
                            cache |-> [s.cache EXCEPT ![i] = s.off]]
                      ELSE [off |-> att_align_pointer(s.off, thisatt.attalign, -1,
                                                      MemFrom(tp, s.off)),
                            slow |-> TRUE, cache |-> s.cache]
                 ELSE LET o == att_align_nominal(s.off, thisatt.attalign) IN
                      [off |-> o, slow |-> s.slow,
                       cache |-> IF ~s.slow THEN [s.cache EXCEPT ![i] = o] ELSE s.cache]
         IN  [values |-> [s.values EXCEPT ![i] = fetchatt(thisatt, tp, pos.off)],
              isnull |-> [s.isnull EXCEPT ![i] = FALSE],
              off |-> att_addlength_pointer(pos.off, thisatt.attlen, MemFrom(tp, pos.off)),
              slow |-> pos.slow \/ thisatt.attlen <= 0,
              cache |-> pos.cache]

RECURSIVE slot_deform_loop(_, _, _, _, _)
slot_deform_loop(att, tuple, attnum, natts, s) ==
    IF attnum >= natts THEN s
    ELSE slot_deform_loop(att, tuple, attnum + 1, natts,
                          slot_deform_att(att[attnum + 1], tuple, attnum, s))

\* a decoder that starts over at offset 0 whatever it has extracted
slot_deform_start_over(slot) == [off |-> 0, slow |-> FALSE]

\* a decoder that restores the saved state whatever it has extracted
slot_deform_start_stale(slot) == [off |-> slot.tts_off, slow |-> slot.tts_slow]

\* lines 1274-1286: initialize or restore the loop state
slot_deform_start(slot) ==
    IF slot.tts_nvalid = 0
    THEN [off |-> 0, slow |-> FALSE]
    ELSE [off |-> slot.tts_off, slow |-> slot.tts_slow]

\* a decoder that does not save the number of columns it has extracted
slot_deform_tuple_unsaved(slot, natts, tuple, tupleDesc, cache) ==
    LET st == slot_deform_start(slot)
        s == slot_deform_loop(tupleDesc, tuple, slot.tts_nvalid, natts,
                 [values |-> slot.tts_values, isnull |-> slot.tts_isnull,
                  off |-> st.off, slow |-> st.slow, cache |-> cache])
    IN  [slot |-> [tts_nvalid |-> slot.tts_nvalid,
                   tts_off |-> s.off, tts_slow |-> s.slow,
                   tts_values |-> s.values, tts_isnull |-> s.isnull],
         cache |-> s.cache]

\* the slot and the cached offsets after slot_deform_tuple(slot, natts); the
\* loop "for (; attnum < natts; attnum++)" leaves attnum at natts, or where
\* it started when that is not below natts
slot_deform_tuple(slot, natts, tuple, tupleDesc, cache) ==
    LET st == slot_deform_start(slot)
        s == slot_deform_loop(tupleDesc, tuple, slot.tts_nvalid, natts,
                 [values |-> slot.tts_values, isnull |-> slot.tts_isnull,
                  off |-> st.off, slow |-> st.slow, cache |-> cache])
    IN  [slot |-> [tts_nvalid |-> Max(slot.tts_nvalid, natts),
                   tts_off |-> s.off, tts_slow |-> s.slow,
                   tts_values |-> s.values, tts_isnull |-> s.isnull],
         cache |-> s.cache]

\* slot_getmissingattrs: entries startAttNum .. lastAttNum - 1, counted from 0
slot_getmissingattrs(slot, missing, startAttNum, lastAttNum) ==
    LET in_range(i) == i - 1 >= startAttNum /\ i - 1 < lastAttNum IN
    IF missing = NoMissing
    THEN [slot EXCEPT
             !.tts_values = [i \in DOMAIN slot.tts_values |->
                                IF in_range(i) THEN NullResult ELSE slot.tts_values[i]],
             !.tts_isnull = [i \in DOMAIN slot.tts_isnull |->
                                IF in_range(i) THEN TRUE ELSE slot.tts_isnull[i]]]
    ELSE [slot EXCEPT
             !.tts_values = [i \in DOMAIN slot.tts_values |->
                                IF in_range(i) THEN missing[i].ammissing
                                ELSE slot.tts_values[i]],
             !.tts_isnull = [i \in DOMAIN slot.tts_isnull |->
                                IF in_range(i) THEN ~missing[i].ammissingPresent
                                ELSE slot.tts_isnull[i]]]

(***************************************************************************)
(* nocachegetattr(tuple, attnum, tupleDesc), attnum counted from 1, for a  *)
(* column the tuple has and that is not null.  The result is the Datum,    *)
(* the cached offsets afterwards and fast: whether the offsets were        *)
(* initialized by the fixed-width loop, with reached: the loop's closing   *)
(* assertion j > attnum.                                                   *)
(***************************************************************************)
\* a fetch that does not look for nulls before the target
nocache_null_before_never(tuple, attnum) == FALSE

\* lines 471-498: is a column before the target null
nocache_null_before(tuple, attnum) ==
    LET bp == tuple.t_bits
        byte == attnum \div 8
        finalbit == attnum % 8
    IN  /\ ~HeapTupleNoNulls(tuple)
        /\ \/ \E b \in 0..(finalbit - 1) : ~BitSet(ByteAt(bp, byte), Pow2(b))
           \/ \E i \in 0..(byte - 1) : ByteAt(bp, i) # 255

\* lines 519-531: a non-fixed-length column up to and including the target
nocache_varwidth_upto(tuple, att, attnum) ==
    /\ HeapTupleHasVarWidth(tuple)
    /\ \E j \in 0..attnum : att[j + 1].attlen <= 0

\* line 551: skip the columns whose offset is already set
RECURSIVE nocache_skip(_, _, _)
nocache_skip(cache, natts, j) ==
    IF j < natts /\ cache[j + 1] > 0 THEN nocache_skip(cache, natts, j + 1) ELSE j

\* a loop that caches the running offset without aligning it
RECURSIVE nocache_init_loop_unaligned(_, _, _, _, _)
nocache_init_loop_unaligned(att, natts, j, off, cache) ==
    IF j >= natts \/ att[j + 1].attlen <= 0 THEN [j |-> j, cache |-> cache]
    ELSE nocache_init_loop_unaligned(att, natts, j + 1, off + att[j + 1].attlen,
                                     [cache EXCEPT ![j + 1] = off])

\* lines 556-566: set the offsets of the leading fixed-width columns
RECURSIVE nocache_init_loop(_, _, _, _, _)
nocache_init_loop(att, natts, j, off, cache) ==
    IF j >= natts \/ att[j + 1].attlen <= 0 THEN [j |-> j, cache |-> cache]
    ELSE LET o == att_align_nominal(off, att[j + 1].attalign) IN
         nocache_init_loop(att, natts, j + 1, o + att[j + 1].attlen,
                           [cache EXCEPT ![j + 1] = o])

\* lines 536-570
nocache_fast(att, cache) ==
    LET natts == Len(att)
        c0 == [cache EXCEPT ![1] = 0]
        j == nocache_skip(c0, natts, 1)
    IN  nocache_init_loop(att, natts, j, c0[j] + att[j].attlen, c0)

\* lines 587-633: walk the tuple; the result is the target's offset and
\* the cached offsets
RECURSIVE nocache_walk(_, _, _, _, _, _, _)
nocache_walk(att, tuple, attnum, i, off, usecache, cache) ==
    LET tp == tuple.data
        a == att[i + 1]
    IN
    IF HeapTupleHasNulls(tuple) /\ att_isnull(i, tuple.t_bits)
    THEN nocache_walk(att, tuple, attnum, i + 1, off, FALSE, cache)
    ELSE LET pos ==
                 IF usecache /\ cache[i + 1] >= 0
                 THEN [off |-> cache[i + 1], usecache |-> usecache, cache |-> cache]
                 ELSE IF a.attlen = -1
                 THEN IF usecache /\ off = att_align_nominal(off, a.attalign)
                      THEN [off |-> off, usecache |-> usecache,
                            cache |-> [cache EXCEPT ![i + 1] = off]]
                      ELSE [off |-> att_align_pointer(off, a.attalign, -1, MemFrom(tp, off)),
                            usecache |-> FALSE, cache |-> cache]
                 ELSE LET o == att_align_nominal(off, a.attalign) IN
                      [off |-> o, usecache |-> usecache,
                       cache |-> IF usecache THEN [cache EXCEPT ![i + 1] = o] ELSE cache]
         IN  IF i = attnum THEN [off |-> pos.off, cache |-> pos.cache]
             ELSE nocache_walk(att, tuple, attnum, i + 1,
                      att_addlength_pointer(pos.off, a.attlen, MemFrom(tp, pos.off)),
                      pos.usecache /\ a.attlen > 0, pos.cache)

nocachegetattr(tuple, attnum1, tupleDesc, cache) ==
    LET att == tupleDesc
        attnum == attnum1 - 1
        tp == tuple.data
        slow1 == nocache_null_before(tuple, attnum)
    IN
    IF ~slow1 /\ cache[attnum + 1] >= 0
    THEN [value |-> fetchatt(att[attnum + 1], tp, cache[attnum + 1]),
          cache |-> cache, fast |-> FALSE, reached |-> TRUE]
    ELSE IF ~slow1 /\ ~nocache_varwidth_upto(tuple, att, attnum)
    THEN LET f == nocache_fast(att, cache) IN
         [value |-> fetchatt(att[attnum + 1], tp, f.cache[attnum + 1]),
          cache |-> f.cache, fast |-> TRUE, reached |-> f.j > attnum]
    ELSE LET w == nocache_walk(att, tuple, attnum, 0, 0, TRUE, cache) IN
         [value |-> fetchatt(att[attnum + 1], tp, w.off),
          cache |-> w.cache, fast |-> FALSE, reached |-> TRUE]

(***************************************************************************)
(* slot_getsomeattrs, slot_getallattrs and slot_getattr on a slot holding  *)
(* a physical tuple.  Each gives the slot and the cached offsets after the *)
(* call; slot_getattr also gives the value and null flag returned.         *)
(***************************************************************************)
\* an extraction without the quick exit
slot_getsomeattrs_always(slot, attnum, tuple, tupleDesc, missing, cache) ==
    LET attno == Min(HeapTupleHeaderGetNatts(tuple), attnum)
        d == slot_deform_tuple(slot, attno, tuple, tupleDesc, cache)
        filled == IF attno < attnum
                  THEN slot_getmissingattrs(d.slot, missing, attno, attnum)
                  ELSE d.slot
    IN  [slot |-> [filled EXCEPT !.tts_nvalid = attnum], cache |-> d.cache]

slot_getsomeattrs(slot, attnum, tuple, tupleDesc, missing, cache) ==
    IF slot.tts_nvalid >= attnum
    THEN [slot |-> slot, cache |-> cache]
    ELSE LET attno == Min(HeapTupleHeaderGetNatts(tuple), attnum)
             d == slot_deform_tuple(slot, attno, tuple, tupleDesc, cache)
             filled == IF attno < attnum
                       THEN slot_getmissingattrs(d.slot, missing, attno, attnum)
                       ELSE d.slot
         IN  [slot |-> [filled EXCEPT !.tts_nvalid = attnum], cache |-> d.cache]

slot_getallattrs(slot, tuple, tupleDesc, missing, cache) ==
    LET tdesc_natts == Len(tupleDesc) IN
    IF slot.tts_nvalid = tdesc_natts
    THEN [slot |-> slot, cache |-> cache]
    ELSE LET attnum == Min(HeapTupleHeaderGetNatts(tuple), tdesc_natts)
             d == slot_deform_tuple(slot, attnum, tuple, tupleDesc, cache)
             filled == IF attnum < tdesc_natts
                       THEN slot_getmissingattrs(d.slot, missing, attnum, tdesc_natts)
                       ELSE d.slot
         IN  [slot |-> [filled EXCEPT !.tts_nvalid = tdesc_natts], cache |-> d.cache]

\* slot_getattr for attnum > 0
slot_getattr(slot, attnum, tuple, tupleDesc, missing, cache) ==
    IF attnum <= slot.tts_nvalid
    THEN [value |-> slot.tts_values[attnum], isnull |-> slot.tts_isnull[attnum],
          slot |-> slot, cache |-> cache]
    ELSE IF attnum > Len(tupleDesc)
    THEN [value |-> NullResult, isnull |-> TRUE, slot |-> slot, cache |-> cache]
    ELSE IF attnum > HeapTupleHeaderGetNatts(tuple)
    THEN LET m == getmissingattr(tupleDesc, missing, attnum) IN
         [value |-> m.value, isnull |-> m.isnull, slot |-> slot, cache |-> cache]
    ELSE IF HeapTupleHasNulls(tuple) /\ att_isnull(attnum - 1, tuple.t_bits)
    THEN [value |-> NullResult, isnull |-> TRUE, slot |-> slot, cache |-> cache]
    ELSE IF tupleDesc[attnum].attisdropped
    THEN [value |-> NullResult, isnull |-> TRUE, slot |-> slot, cache |-> cache]
    ELSE LET d == slot_deform_tuple(slot, attnum, tuple, tupleDesc, cache) IN
         [value |-> d.slot.tts_values[attnum], isnull |-> d.slot.tts_isnull[attnum],
          slot |-> d.slot, cache |-> d.cache]

(***************************************************************************)
(* Column descriptors (Form_pg_attribute) and the schemas rows are built   *)
(* and decoded under.                                                      *)
(***************************************************************************)
Attr(len, align, byval, storage) ==
    [attlen |-> len, attalign |-> align, attbyval |-> byval, attstorage |-> storage,
     attisdropped |-> FALSE, atthasmissing |-> FALSE]
INT4 == Attr(4, "i", TRUE, "p")
INT2 == Attr(2, "s", TRUE, "p")
CHAR1 == Attr(1, "c", TRUE, "p")
TID == Attr(6, "s", FALSE, "p")
TEXT == Attr(-1, "i", FALSE, "x")
OIDVECTOR == Attr(-1, "i", FALSE, "p")
CSTRING == Attr(-2, "c", FALSE, "p")
Dropped(att) == [att EXCEPT !.attisdropped = TRUE]
HasMissing(att) == [att EXCEPT !.atthasmissing = TRUE]

\* an entry of the Missing-Values table: the Datum ammissing and, for a
\* by-reference default, the memory mem it points to
MissingEntry(n) ==
    [ammissing |-> [v |-> n, ptr |-> NoPtr], ammissingPresent |-> TRUE, mem |-> <<>>]
MissingRef(i, bytes) ==
    [ammissing |-> [v |-> 0, ptr |-> MissingPtr(i)], ammissingPresent |-> TRUE,
     mem |-> bytes]
NoEntry == [ammissing |-> NullResult, ammissingPresent |-> FALSE, mem |-> <<>>]

\* A schema: its columns, its Missing-Values table and firstatts, the
\* number of columns it had before columns were added to it (rows stored
\* before then have fewer columns than the schema).
Schema(atts, miss, first) == [desc |-> atts, missing |-> miss, firstatts |-> first]
Schemas ==
    { Schema(<<INT4, TEXT, INT4>>, NoMissing, 3),
      Schema(<<CHAR1, TEXT, INT4>>, NoMissing, 3),
      Schema(<<TEXT, TEXT, INT2>>, NoMissing, 2),
      Schema(<<CHAR1, CSTRING, INT2>>, NoMissing, 3),
      Schema(<<INT4, TID, OIDVECTOR>>, NoMissing, 3),
      Schema(<<INT4, Dropped(INT4), TEXT>>, NoMissing, 3),
      Schema(<<INT4, CHAR1, HasMissing(INT4), TEXT>>,
             <<NoEntry, NoEntry, MissingEntry(42), NoEntry>>, 2) }

\* the values a column of the main specification takes
SmallValues(att) ==
    IF att.attbyval
    THEN IF att.attlen = 4 THEN {IntDatum(7), IntDatum(99)}
         ELSE IF att.attlen = 2 THEN {IntDatum(258)}
         ELSE {IntDatum(65)}
    ELSE IF att.attlen = -1
    THEN {PtrDatum(ShortVarlena(Payload(n))) : n \in 1..MaxPayload}
         \cup {PtrDatum(FullVarlena(Payload(MaxPayload))),
               PtrDatum(CompressedVarlena(Payload(1))),
               PtrDatum(ExternalOnDisk),
               ExpandedDatum(FullVarlena(Payload(1)))}
    ELSE IF att.attlen = -2
    THEN {PtrDatum(<<0>>), PtrDatum(Payload(MaxPayload) \o <<0>>)}
    ELSE {PtrDatum(Payload(att.attlen))}

\* the fewer values a column takes where the slot is exercised as well
TinyValues(att) ==
    IF att.attbyval
    THEN IF att.attlen = 4 THEN {IntDatum(7)}
         ELSE IF att.attlen = 2 THEN {IntDatum(258)}
         ELSE {IntDatum(65)}
    ELSE IF att.attlen = -1
    THEN {PtrDatum(ShortVarlena(Payload(MaxPayload))),
          PtrDatum(CompressedVarlena(Payload(1)))}
    ELSE IF att.attlen = -2
    THEN {PtrDatum(Payload(MaxPayload) \o <<0>>)}
    ELSE {PtrDatum(Payload(att.attlen))}

AttKinds == {INT4, INT2, CHAR1, TID, TEXT, OIDVECTOR, CSTRING}
AllAtts == AttKinds \cup {Dropped(a) : a \in AttKinds} \cup {HasMissing(a) : a \in AttKinds}
BaseAtt(att) == [att EXCEPT !.attisdropped = FALSE, !.atthasmissing = FALSE]
SmallValuesOf == [att \in AllAtts |-> SmallValues(BaseAtt(att))]
TinyValuesOf == [att \in AllAtts |-> TinyValues(BaseAtt(att))]

\* a row to build: one cell [datum, isnull] per column, the values drawn
\* from vals[att]
Cells(att, vals) ==
    {[datum |-> d, isnull |-> FALSE] : d \in vals[att]}
    \cup {[datum |-> NullDatum, isnull |-> TRUE]}
RECURSIVE Rows(_, _, _)
Rows(atts, n, vals) ==
    IF n = 0 THEN {<<>>}
    ELSE {Append(r, c) : r \in Rows(atts, n - 1, vals), c \in Cells(atts[n], vals)}
RowValues(row) == [i \in 1..Len(row) |-> row[i].datum]
RowIsnull(row) == [i \in 1..Len(row) |-> row[i].isnull]

(***************************************************************************)
(* State.                                                                  *)
(***************************************************************************)
VARIABLES
    desc,        \* tupleDesc->attrs: the schema's column descriptors
    missing,     \* tupleDesc->constr->missing
    attcacheoff, \* attcacheoff of each column descriptor
    in_values,   \* the values array the current tuple was built from
    in_isnull,   \* the isnull array the current tuple was built from
    tuple,       \* the tuple the slot holds (slot->tts_tuple)
    slot,        \* tts_nvalid, tts_off, tts_slow, tts_values, tts_isnull
    ret,         \* the last call: its name, argument and results
    dec,         \* the decoders that run interleaved, each with its locals
    newTuple,    \* the tuple the last heap_modify_tuple / expand call returned
    datarow      \* the DataRow message the slot holds (slot->tts_datarow)

vars == <<desc, missing, attcacheoff, in_values, in_isnull, tuple, slot, ret, dec,
          newTuple, datarow>>

NoTuple ==
    [t_len |-> 0, t_hoff |-> 0, natts |-> 0, t_infomask |-> {}, t_bits |-> <<>>,
     data |-> <<>>, fill |-> 0, ats |-> <<>>, lens |-> <<>>,
     minimal |-> FALSE,
     t_self |-> InvalidItemPointer, t_ctid |-> InvalidItemPointer,
     t_tableOid |-> InvalidOid, t_oid |-> InvalidOid]

\* no DataRow message (slot->tts_datarow == NULL)
NoDataRow == <<>>

Ret(op, attnum, values, isnull) ==
    [op |-> op, attnum |-> attnum, values |-> values, isnull |-> isnull]

\* a call that ended in elog(ERROR) / ereport(ERROR): err is the condition
\* reported, and the call returned nothing
RetError(op, attnum, err) ==
    [op |-> op, attnum |-> attnum, values |-> <<>>, isnull |-> <<>>, err |-> err]
Raised(r) == "err" \in DOMAIN r

\* MakeTupleTableSlot / ExecSetSlotDescriptor: an empty slot over the schema
EmptySlot(natts) ==
    [tts_nvalid |-> 0, tts_off |-> 0, tts_slow |-> FALSE,
     tts_values |-> [i \in 1..natts |-> Unwritten],
     tts_isnull |-> [i \in 1..natts |-> TRUE]]

\* a schema with every cached offset unset (TupleDescInitEntry sets -1)
Init ==
    \E sch \in Schemas :
        /\ desc = sch.desc
        /\ missing = sch.missing
        /\ attcacheoff = [i \in 1..Len(sch.desc) |-> -1]
        /\ in_values = <<>>
        /\ in_isnull = <<>>
        /\ tuple = NoTuple
        /\ slot = EmptySlot(Len(sch.desc))
        /\ ret = Ret("init", 0, <<>>, <<>>)
        /\ dec = <<>>
        /\ newTuple = NoTuple
        /\ datarow = NoDataRow

\* the rows of every schema with the tuple heap_form_tuple builds from each:
\* a row stored before columns were added has the schema's first natts columns
FormedRows(vals) ==
    UNION { UNION { { [desc |-> sch.desc, missing |-> sch.missing, natts |-> n,
                       values |-> RowValues(row), isnull |-> RowIsnull(row),
                       tuple |-> heap_form_tuple(SubSeq(sch.desc, 1, n),
                                                 RowValues(row), RowIsnull(row), FALSE)]
                      : row \in Rows(sch.desc, n, vals) }
                    : n \in sch.firstatts..Len(sch.desc) }
            : sch \in Schemas }
SmallFormed == FormedRows(SmallValuesOf)
TinyFormed == FormedRows(TinyValuesOf)

\* heap_form_tuple of a row, stored into the slot by its owner
\* (ExecStoreTuple: tts_tuple is replaced and tts_nvalid reset to 0; tts_off
\* and tts_slow keep what they held; the entries of tts_values / tts_isnull,
\* none of them valid any more, are modelled as unwritten)
StoreTupleOf(formed) ==
    \E r \in formed :
        /\ r.desc = desc
        /\ r.missing = missing
        /\ tuple' = r.tuple
        /\ in_values' = r.values
        /\ in_isnull' = r.isnull
        /\ slot' = [EmptySlot(Len(desc)) EXCEPT !.tts_off = slot.tts_off,
                                                !.tts_slow = slot.tts_slow]
        /\ ret' = Ret("heap_form_tuple", r.natts, <<>>, <<>>)
        /\ UNCHANGED <<newTuple, datarow, dec, desc, missing, attcacheoff>>

StoreTuple == StoreTupleOf(SmallFormed)
StoreSlotTuple == StoreTupleOf(TinyFormed)

HeapDeformTuple ==
    /\ tuple # NoTuple
    /\ LET d == heap_deform_tuple(tuple, desc, missing, attcacheoff) IN
       /\ attcacheoff' = d.cache
       /\ ret' = Ret("heap_deform_tuple", 0, d.values, d.isnull)
    /\ UNCHANGED <<newTuple, datarow, dec, desc, missing, in_values, in_isnull, tuple, slot>>

\* fastgetattr calls nocachegetattr for a column of the tuple that is not null
NoCacheGetAttr ==
    /\ tuple # NoTuple
    /\ \E attnum \in 1..HeapTupleHeaderGetNatts(tuple) :
        /\ ~(HeapTupleHasNulls(tuple) /\ att_isnull(attnum - 1, tuple.t_bits))
        /\ LET r == nocachegetattr(tuple, attnum, desc, attcacheoff) IN
           /\ attcacheoff' = r.cache
           /\ ret' = Ret("nocachegetattr", attnum, <<r.value>>, <<FALSE>>)
    /\ UNCHANGED <<newTuple, datarow, dec, desc, missing, in_values, in_isnull, tuple, slot>>

SlotGetSomeAttrs ==
    /\ tuple # NoTuple
    /\ \E attnum \in 1..Len(desc) :
        LET r == slot_getsomeattrs(slot, attnum, tuple, desc, missing, attcacheoff) IN
        /\ slot' = r.slot
        /\ attcacheoff' = r.cache
        /\ ret' = Ret("slot_getsomeattrs", attnum, <<>>, <<>>)
    /\ UNCHANGED <<newTuple, datarow, dec, desc, missing, in_values, in_isnull, tuple>>

SlotGetAllAttrs ==
    /\ tuple # NoTuple
    /\ LET r == slot_getallattrs(slot, tuple, desc, missing, attcacheoff) IN
       /\ slot' = r.slot
       /\ attcacheoff' = r.cache
       /\ ret' = Ret("slot_getallattrs", 0, <<>>, <<>>)
    /\ UNCHANGED <<newTuple, datarow, dec, desc, missing, in_values, in_isnull, tuple>>

SlotGetAttr ==
    /\ tuple # NoTuple
    /\ \E attnum \in 1..Len(desc) :
        LET r == slot_getattr(slot, attnum, tuple, desc, missing, attcacheoff) IN
        /\ slot' = r.slot
        /\ attcacheoff' = r.cache
        /\ ret' = Ret("slot_getattr", attnum, <<r.value>>, <<r.isnull>>)
    /\ UNCHANGED <<newTuple, datarow, dec, desc, missing, in_values, in_isnull, tuple>>

\* rows built and decoded by heap_deform_tuple and nocachegetattr
Next ==
    \/ StoreTuple
    \/ HeapDeformTuple
    \/ NoCacheGetAttr

Spec == Init /\ [][Next]_vars

\* the slot's incremental decoding among the other decoders
NextSlot ==
    \/ StoreSlotTuple
    \/ HeapDeformTuple
    \/ NoCacheGetAttr
    \/ SlotGetSomeAttrs
    \/ SlotGetAllAttrs
    \/ SlotGetAttr

SpecSlot == Init /\ [][NextSlot]_vars

(***************************************************************************)
(* The encoder alone, over every form a value can take: SpecForm builds    *)
(* the heap tuple and the minimal tuple of one row and computes its data   *)
(* size.                                                                   *)
(***************************************************************************)
INT8 == Attr(8, "d", TRUE, "p")
FormKinds == AttKinds \cup {INT8}

\* the payload sizes either side of the packing threshold, and a long one
LongPayload == 200
ThresholdPayload == VARATT_SHORT_MAX - VARHDRSZ_SHORT

WideValues(att) ==
    IF att.attbyval
    THEN IF att.attlen = 8 THEN {IntDatum(16909060)}
         ELSE IF att.attlen = 4 THEN {IntDatum(7), IntDatum(99)}
         ELSE IF att.attlen = 2 THEN {IntDatum(258)}
         ELSE {IntDatum(65)}
    ELSE IF att.attlen = -1
    THEN {PtrDatum(ShortVarlena(Payload(n))) : n \in {1, ThresholdPayload}}
         \cup {PtrDatum(FullVarlena(Payload(n)))
                  : n \in {1, ThresholdPayload, ThresholdPayload + 1, LongPayload}}
         \cup {PtrDatum(CompressedVarlena(Payload(1))),
               PtrDatum(ExternalOnDisk),
               ExpandedDatum(FullVarlena(Payload(MaxPayload)))}
    ELSE IF att.attlen = -2
    THEN {PtrDatum(<<0>>), PtrDatum(Payload(MaxPayload) \o <<0>>)}
    ELSE {PtrDatum(Payload(att.attlen))}
WideValuesOf == [att \in FormKinds |-> WideValues(att)]

\* every schema of one or two columns, the three-column schema of the
\* scenarios, two where variable-length values follow a one-byte column,
\* and one whose null bitmap takes two bytes
FormSchemas ==
    {<<a>> : a \in FormKinds}
    \cup {<<a, b>> : a \in FormKinds, b \in FormKinds}
    \cup {<<INT4, TEXT, INT4>>, <<INT4, CHAR1, TEXT>>, <<CHAR1, TEXT, TEXT>>}
    \cup {[i \in 1..10 |-> CHAR1]}

FormInputs ==
    UNION { { [desc |-> atts, values |-> RowValues(row), isnull |-> RowIsnull(row)]
              : row \in Rows(atts, Len(atts), WideValuesOf) }
            : atts \in FormSchemas }

InitForm ==
    \E in \in FormInputs :
        /\ desc = in.desc
        /\ missing = NoMissing
        /\ attcacheoff = [i \in 1..Len(in.desc) |-> -1]
        /\ in_values = in.values
        /\ in_isnull = in.isnull
        /\ tuple = NoTuple
        /\ slot = EmptySlot(Len(in.desc))
        /\ ret = Ret("init", 0, <<>>, <<>>)
        /\ dec = <<>>
        /\ newTuple = NoTuple
        /\ datarow = NoDataRow

\* heap_compute_data_size(desc, values, isnull): ret.attnum is the size
ComputeDataSize ==
    /\ ret' = Ret("heap_compute_data_size",
                  heap_compute_data_size(desc, in_values, in_isnull), <<>>, <<>>)
    /\ UNCHANGED <<newTuple, datarow, dec, desc, missing, attcacheoff, in_values, in_isnull, tuple, slot>>

\* heap_form_tuple(desc, values, isnull), the schema with or without tdhasoid
\* (a call that raises leaves no tuple and reports the condition in ret)
HeapFormTuple ==
    \E tdhasoid \in BOOLEAN :
        LET t == heap_form_tuple(desc, in_values, in_isnull, tdhasoid) IN
        /\ IF "err" \in DOMAIN t
           THEN tuple' = tuple /\ ret' = RetError("heap_form_tuple", Len(desc), t.err)
           ELSE tuple' = t /\ ret' = ret
        /\ UNCHANGED <<newTuple, datarow, dec, desc, missing, attcacheoff, in_values, in_isnull, slot>>

HeapFormMinimalTuple ==
    \E tdhasoid \in BOOLEAN :
        LET t == heap_form_minimal_tuple(desc, in_values, in_isnull, tdhasoid) IN
        /\ IF "err" \in DOMAIN t
           THEN /\ tuple' = tuple
                /\ ret' = RetError("heap_form_minimal_tuple", Len(desc), t.err)
           ELSE tuple' = t /\ ret' = ret
        /\ UNCHANGED <<newTuple, datarow, dec, desc, missing, attcacheoff, in_values, in_isnull, slot>>

NextForm ==
    \/ ComputeDataSize
    \/ HeapFormTuple
    \/ HeapFormMinimalTuple

SpecForm == InitForm /\ [][NextForm]_vars

(***************************************************************************)
(* Two decoders interleaved.  SpecRace runs heap_deform_tuple and          *)
(* nocachegetattr as two decoders, each on its own tuple of the schema,    *)
(* sharing the schema's attcacheoff.  One step of a decoder is its code up *)
(* to and including one read or one write of an attcacheoff, or code that  *)
(* touches none.  A decoder d is its tuple with the row it was built from, *)
(* the call it is in (op, its target attnum counted from 1, its position   *)
(* pc), the locals of that call (i: the loop variable attnum / i / j       *)
(* counted from 0, off, slow, usecache), the results it has produced       *)
(* (values, isnull; reached: the assertion j > attnum), the writes it has  *)
(* made to attcacheoff (wrote: pairs <<column, offset>>) and the number of *)
(* calls it has begun.                                                     *)
(***************************************************************************)
MaxCalls == 2
Decoders == {1, 2}

\* the rows two decoders work on: the full rows of three schemas, one value
\* for each column or null
RaceSchemas == {<<INT4, TEXT, INT4>>, <<CHAR1, TEXT, INT4>>, <<CHAR1, CSTRING, INT2>>}
RaceValues(att) ==
    IF att.attlen = -1 THEN {PtrDatum(ShortVarlena(Payload(MaxPayload)))}
    ELSE TinyValues(att)
RaceValuesOf == [att \in AllAtts |-> RaceValues(BaseAtt(att))]
RaceRows ==
    {r \in FormedRows(RaceValuesOf) : r.desc \in RaceSchemas /\ r.natts = Len(r.desc)}

IdleDecoder(r) ==
    [in_values |-> r.values, in_isnull |-> r.isnull, tuple |-> r.tuple,
     op |-> "none", attnum |-> 0, pc |-> "idle", i |-> 0, off |-> 0,
     slow |-> FALSE, usecache |-> FALSE,
     values |-> [k \in 1..r.natts |-> Unwritten],
     isnull |-> [k \in 1..r.natts |-> TRUE],
     reached |-> TRUE, wrote |-> {}, calls |-> 0]

InitRace ==
    \E r1 \in RaceRows, r2 \in RaceRows :
        /\ r1.desc = r2.desc
        /\ desc = r1.desc
        /\ missing = NoMissing
        /\ attcacheoff = [k \in 1..Len(r1.desc) |-> -1]
        /\ in_values = <<>>
        /\ in_isnull = <<>>
        /\ tuple = NoTuple
        /\ slot = EmptySlot(Len(r1.desc))
        /\ ret = Ret("init", 0, <<>>, <<>>)
        /\ dec = <<IdleDecoder(r1), IdleDecoder(r2)>>
        /\ newTuple = NoTuple
        /\ datarow = NoDataRow

RaceFrame == UNCHANGED <<newTuple, datarow, desc, missing, in_values, in_isnull, tuple, slot, ret>>

\* column d.i (counted from 0) of the decoder's tuple is null
RaceNull(d) == HeapTupleHasNulls(d.tuple) /\ att_isnull(d.i, d.tuple.t_bits)
RaceAtt(d) == desc[d.i + 1]
RaceNatts(d) == Min(HeapTupleHeaderGetNatts(d.tuple), Len(desc))

\* heap_deform_tuple lines 1216-1221: fetch the column at off and advance
HdFetch(d, off, slow) ==
    LET thisatt == RaceAtt(d)
        tp == d.tuple.data
    IN  [d EXCEPT !.values[d.i + 1] = fetchatt(thisatt, tp, off),
                  !.isnull[d.i + 1] = FALSE,
                  !.off = att_addlength_pointer(off, thisatt.attlen, MemFrom(tp, off)),
                  !.slow = slow \/ thisatt.attlen <= 0,
                  !.i = d.i + 1,
                  !.pc = IF d.i + 1 >= RaceNatts(d) THEN "done" ELSE "hd"]

\* lines 1148-1171: heap_deform_tuple begins
HdStart(p) ==
    /\ dec[p].pc \in {"idle", "done"}
    /\ dec[p].calls < MaxCalls
    /\ dec' = [dec EXCEPT ![p] =
                 [@ EXCEPT !.op = "heap_deform_tuple", !.attnum = 0, !.pc = "hd",
                           !.i = 0, !.off = 0, !.slow = FALSE,
                           !.values = [k \in DOMAIN @ |-> Unwritten],
                           !.isnull = [k \in DOMAIN @ |-> TRUE],
                           !.calls = @ + 1]]
    /\ UNCHANGED attcacheoff
    /\ RaceFrame

\* lines 1177-1183 and, on the slow path, 1189-1214: no attcacheoff involved
HdLocal(p) ==
    LET d == dec[p] IN
    /\ d.pc = "hd"
    /\ RaceNull(d) \/ d.slow
    /\ dec' = [dec EXCEPT ![p] =
                 IF RaceNull(d)
                 THEN [d EXCEPT !.values[d.i + 1] = NullResult,
                                !.isnull[d.i + 1] = TRUE,
                                !.slow = TRUE,
                                !.i = d.i + 1,
                                !.pc = IF d.i + 1 >= RaceNatts(d) THEN "done" ELSE "hd"]
                 ELSE IF RaceAtt(d).attlen = -1
                 THEN HdFetch(d, att_align_pointer(d.off, RaceAtt(d).attalign, -1,
                                                   MemFrom(d.tuple.data, d.off)), TRUE)
                 ELSE HdFetch(d, att_align_nominal(d.off, RaceAtt(d).attalign), TRUE)]
    /\ UNCHANGED attcacheoff
    /\ RaceFrame

\* line 1187: the read "thisatt->attcacheoff >= 0", and what follows it up
\* to the next access
HdTest(p) ==
    LET d == dec[p] IN
    /\ d.pc = "hd"
    /\ ~RaceNull(d) /\ ~d.slow
    /\ dec' = [dec EXCEPT ![p] =
                 IF attcacheoff[d.i + 1] >= 0 THEN [d EXCEPT !.pc = "hd_use"]
                 ELSE IF RaceAtt(d).attlen = -1
                 THEN IF d.off = att_align_nominal(d.off, RaceAtt(d).attalign)
                      THEN [d EXCEPT !.pc = "hd_set"]
                      ELSE HdFetch(d, att_align_pointer(d.off, RaceAtt(d).attalign, -1,
                                                        MemFrom(d.tuple.data, d.off)),
                                   TRUE)
                 ELSE [d EXCEPT !.off = att_align_nominal(d.off, RaceAtt(d).attalign),
                                !.pc = "hd_set"]]
    /\ UNCHANGED attcacheoff
    /\ RaceFrame

\* line 1188: the read "off = thisatt->attcacheoff"
HdUse(p) ==
    LET d == dec[p] IN
    /\ d.pc = "hd_use"
    /\ dec' = [dec EXCEPT ![p] = HdFetch(d, attcacheoff[d.i + 1], d.slow)]
    /\ UNCHANGED attcacheoff
    /\ RaceFrame

\* lines 1199 and 1213: the write "thisatt->attcacheoff = off"
HdSet(p) ==
    LET d == dec[p] IN
    /\ d.pc = "hd_set"
    /\ attcacheoff' = [attcacheoff EXCEPT ![d.i + 1] = d.off]
    /\ dec' = [dec EXCEPT ![p] =
                 HdFetch([d EXCEPT !.wrote = @ \cup {<<d.i + 1, d.off>>}], d.off, d.slow)]
    /\ RaceFrame

\* nocachegetattr returns fetchatt(att[attnum], tp + off)
NcReturn(d, off) ==
    [d EXCEPT !.values[d.attnum] = fetchatt(desc[d.attnum], d.tuple.data, off),
              !.isnull[d.attnum] = FALSE,
              !.off = off,
              !.pc = "done"]

\* lines 471-498: nocachegetattr begins, for a column that is not null;
\* with a null before the target it goes to the careful walk
NcStart(p) ==
    /\ dec[p].pc \in {"idle", "done"}
    /\ dec[p].calls < MaxCalls
    /\ \E attnum \in 1..HeapTupleHeaderGetNatts(dec[p].tuple) :
          /\ ~dec[p].in_isnull[attnum]
          /\ dec' = [dec EXCEPT ![p] =
                [@ EXCEPT !.op = "nocachegetattr", !.attnum = attnum,
                          !.pc = IF nocache_null_before(dec[p].tuple, attnum - 1)
                                 THEN "nc_walk" ELSE "nc_test",
                          !.i = 0, !.off = 0,
                          !.slow = nocache_null_before(dec[p].tuple, attnum - 1),
                          !.usecache = TRUE,
                          !.values = [k \in DOMAIN @ |-> Unwritten],
                          !.isnull = [k \in DOMAIN @ |-> TRUE],
                          !.reached = TRUE,
                          !.calls = @ + 1]]
    /\ UNCHANGED attcacheoff
    /\ RaceFrame

\* line 508: the read "att[attnum]->attcacheoff >= 0", then lines 519-531
NcTest(p) ==
    LET d == dec[p] IN
    /\ d.pc = "nc_test"
    /\ dec' = [dec EXCEPT ![p] =
                 IF attcacheoff[d.attnum] >= 0 THEN [d EXCEPT !.pc = "nc_hit"]
                 ELSE IF nocache_varwidth_upto(d.tuple, desc, d.attnum - 1)
                 THEN [d EXCEPT !.slow = TRUE, !.pc = "nc_walk"]
                 ELSE [d EXCEPT !.pc = "nc_zero"]]
    /\ UNCHANGED attcacheoff
    /\ RaceFrame

\* lines 510-511: the read in "tp + att[attnum]->attcacheoff"
NcHit(p) ==
    LET d == dec[p] IN
    /\ d.pc = "nc_hit"
    /\ dec' = [dec EXCEPT ![p] = NcReturn(d, attcacheoff[d.attnum])]
    /\ UNCHANGED attcacheoff
    /\ RaceFrame

\* line 548: the write "att[0]->attcacheoff = 0", with j = 1
NcZero(p) ==
    LET d == dec[p] IN
    /\ d.pc = "nc_zero"
    /\ attcacheoff' = [attcacheoff EXCEPT ![1] = 0]
    /\ dec' = [dec EXCEPT ![p] =
                 [d EXCEPT !.i = 1, !.pc = "nc_skip", !.wrote = @ \cup {<<1, 0>>}]]
    /\ RaceFrame

\* lines 551-552: one read "att[j]->attcacheoff > 0" of the while loop
NcSkip(p) ==
    LET d == dec[p] IN
    /\ d.pc = "nc_skip"
    /\ dec' = [dec EXCEPT ![p] =
                 IF d.i < Len(desc) /\ attcacheoff[d.i + 1] > 0
                 THEN [d EXCEPT !.i = d.i + 1]
                 ELSE [d EXCEPT !.pc = "nc_base"]]
    /\ UNCHANGED attcacheoff
    /\ RaceFrame

\* line 554: the read in "off = att[j - 1]->attcacheoff + att[j - 1]->attlen"
NcBase(p) ==
    LET d == dec[p] IN
    /\ d.pc = "nc_base"
    /\ dec' = [dec EXCEPT ![p] =
                 [d EXCEPT !.off = attcacheoff[d.i] + desc[d.i].attlen,
                           !.pc = "nc_init"]]
    /\ UNCHANGED attcacheoff
    /\ RaceFrame

\* lines 556-566: one iteration of the for loop with its write
\* "att[j]->attcacheoff = off", or its exit and the assertion of line 568
NcInit(p) ==
    LET d == dec[p]
        cont == d.i < Len(desc) /\ desc[d.i + 1].attlen > 0
        off == att_align_nominal(d.off, desc[d.i + 1].attalign)
    IN
    /\ d.pc = "nc_init"
    /\ attcacheoff' = IF cont THEN [attcacheoff EXCEPT ![d.i + 1] = off]
                      ELSE attcacheoff
    /\ dec' = [dec EXCEPT ![p] =
                 IF cont
                 THEN [d EXCEPT !.off = off + desc[d.i + 1].attlen,
                                !.i = d.i + 1,
                                !.wrote = @ \cup {<<d.i + 1, off>>}]
                 ELSE [d EXCEPT !.reached = d.i > d.attnum - 1, !.pc = "nc_fin"]]
    /\ RaceFrame

\* line 570: the read "off = att[attnum]->attcacheoff"
NcFin(p) ==
    LET d == dec[p] IN
    /\ d.pc = "nc_fin"
    /\ dec' = [dec EXCEPT ![p] = NcReturn(d, attcacheoff[d.attnum])]
    /\ UNCHANGED attcacheoff
    /\ RaceFrame

\* lines 627-633 of the careful walk: the target is reached, or the walk
\* steps over the column at off
NcTail(d, off, usecache) ==
    IF d.i = d.attnum - 1 THEN NcReturn(d, off)
    ELSE [d EXCEPT !.off = att_addlength_pointer(off, RaceAtt(d).attlen,
                                                 MemFrom(d.tuple.data, off)),
                   !.usecache = usecache /\ RaceAtt(d).attlen > 0,
                   !.i = d.i + 1,
                   !.pc = "nc_walk"]

\* lines 589-593 and, without usecache, 599-625: no attcacheoff involved
NcWalkLocal(p) ==
    LET d == dec[p] IN
    /\ d.pc = "nc_walk"
    /\ RaceNull(d) \/ ~d.usecache
    /\ dec' = [dec EXCEPT ![p] =
                 IF RaceNull(d) THEN [d EXCEPT !.usecache = FALSE, !.i = d.i + 1]
                 ELSE IF RaceAtt(d).attlen = -1
                 THEN NcTail(d, att_align_pointer(d.off, RaceAtt(d).attalign, -1,
                                                  MemFrom(d.tuple.data, d.off)), FALSE)
                 ELSE NcTail(d, att_align_nominal(d.off, RaceAtt(d).attalign), FALSE)]
    /\ UNCHANGED attcacheoff
    /\ RaceFrame

\* line 597: the read "att[i]->attcacheoff >= 0", and what follows it up to
\* the next access
NcWalkTest(p) ==
    LET d == dec[p] IN
    /\ d.pc = "nc_walk"
    /\ ~RaceNull(d) /\ d.usecache
    /\ dec' = [dec EXCEPT ![p] =
                 IF attcacheoff[d.i + 1] >= 0 THEN [d EXCEPT !.pc = "nc_wuse"]
                 ELSE IF RaceAtt(d).attlen = -1
                 THEN IF d.off = att_align_nominal(d.off, RaceAtt(d).attalign)
                      THEN [d EXCEPT !.pc = "nc_wset"]
                      ELSE NcTail(d, att_align_pointer(d.off, RaceAtt(d).attalign, -1,
                                                       MemFrom(d.tuple.data, d.off)),
                                  FALSE)
                 ELSE [d EXCEPT !.off = att_align_nominal(d.off, RaceAtt(d).attalign),
                                !.pc = "nc_wset"]]
    /\ UNCHANGED attcacheoff
    /\ RaceFrame

\* line 598: the read "off = att[i]->attcacheoff"
NcWalkUse(p) ==
    LET d == dec[p] IN
    /\ d.pc = "nc_wuse"
    /\ dec' = [dec EXCEPT ![p] = NcTail(d, attcacheoff[d.i + 1], d.usecache)]
    /\ UNCHANGED attcacheoff
    /\ RaceFrame

\* lines 609 and 623: the write "att[i]->attcacheoff = off"
NcWalkSet(p) ==
    LET d == dec[p] IN
    /\ d.pc = "nc_wset"
    /\ attcacheoff' = [attcacheoff EXCEPT ![d.i + 1] = d.off]
    /\ dec' = [dec EXCEPT ![p] =
                 NcTail([d EXCEPT !.wrote = @ \cup {<<d.i + 1, d.off>>}],
                        d.off, d.usecache)]
    /\ RaceFrame

NextRace ==
    \E p \in Decoders :
        \/ HdStart(p) \/ HdLocal(p) \/ HdTest(p) \/ HdUse(p) \/ HdSet(p)
        \/ NcStart(p) \/ NcTest(p) \/ NcHit(p)
        \/ NcZero(p) \/ NcSkip(p) \/ NcBase(p) \/ NcInit(p) \/ NcFin(p)
        \/ NcWalkLocal(p) \/ NcWalkTest(p) \/ NcWalkUse(p) \/ NcWalkSet(p)

SpecRace == InitRace /\ [][NextRace]_vars

(***************************************************************************)
(* What a decoder has to return for the current tuple.                     *)
(***************************************************************************)
\* the content of a variable-length value whatever header it carries
VarlenaContent(mem) ==
    IF VARATT_IS_1B_E(mem) THEN <<"external", BytesAt(mem, 0, VARSIZE_EXTERNAL(mem))>>
    ELSE IF VARATT_IS_1B(mem)
    THEN <<"plain", BytesAt(mem, VARHDRSZ_SHORT, VARSIZE_1B(mem) - VARHDRSZ_SHORT)>>
    ELSE IF VARATT_IS_4B_C(mem)
    THEN <<"compressed", BytesAt(mem, VARHDRSZ, VARSIZE_4B(mem) - VARHDRSZ)>>
    ELSE <<"plain", BytesAt(mem, VARHDRSZ, VARSIZE_4B(mem) - VARHDRSZ)>>

\* the memory an input Datum stands for: an expanded object stands for its
\* flat image
InputImage(datum) ==
    IF VARATT_IS_EXTERNAL_EXPANDED(datum.mem) THEN datum.eoh ELSE datum.mem

\* the decoded Datum got equals the input Datum given, column att of tuple tup
DatumEqual(att, given, got, tup) ==
    IF att.attbyval THEN got.ptr = NoPtr /\ got.v = given.v
    ELSE /\ got.ptr >= 0
         /\ LET here == MemFrom(tup.data, got.ptr) IN
            IF att.attlen = -1
            THEN /\ got.ptr + VARSIZE_ANY(here) <= Len(tup.data)
                 /\ VarlenaContent(here) = VarlenaContent(InputImage(given))
            ELSE IF att.attlen = -2
            THEN BytesAt(here, 0, strlen(given.mem) + 1) = given.mem
            ELSE BytesAt(here, 0, att.attlen) = given.mem

\* the values / isnull arrays got hold the row the current tuple was built
\* from, in the entries 1..upto that the tuple has
RoundTrip(values, isnull, upto) ==
    \A i \in 1..Min(upto, Len(in_values)) :
        /\ isnull[i] = in_isnull[i]
        /\ ~in_isnull[i] => DatumEqual(desc[i], in_values[i], values[i], tuple)

RECURSIVE NonNull(_, _, _)
NonNull(seq, isnull, i) ==
    IF i > Len(seq) THEN <<>>
    ELSE IF isnull[i] THEN NonNull(seq, isnull, i + 1)
    ELSE <<seq[i]>> \o NonNull(seq, isnull, i + 1)

\* C2: the size heap_compute_data_size returns for a row is the number of
\* bytes heap_fill_tuple advances its cursor by when it fills the tuple of
\* that row, which is also the size of the data area; and it is the size of
\* the row without its null columns, which add neither bytes nor padding.
C2_SizeAgreement ==
    (ret.op = "heap_compute_data_size" /\ tuple # NoTuple) =>
        /\ tuple.fill = ret.attnum
        /\ Len(tuple.data) = ret.attnum
        /\ ret.attnum =
             heap_compute_data_size(NonNull(desc, in_isnull, 1),
                                    NonNull(in_values, in_isnull, 1),
                                    [i \in 1..Len(NonNull(desc, in_isnull, 1)) |-> FALSE])

\* a row with a null column and a variable-length value stored at an
\* offset that is not aligned
C2_Witness ==
    /\ ret.op = "heap_compute_data_size"
    /\ tuple # NoTuple
    /\ \E i \in 1..Len(desc) : in_isnull[i]
    /\ \E j \in 1..Len(desc) :
          /\ ~in_isnull[j]
          /\ desc[j].attlen = -1
          /\ tuple.ats[j] % 4 # 0

\* the bit of column i (counted from 1) in the null bitmap of the tuple
BitmapBit(i) == BitSet(ByteAt(tuple.t_bits, (i - 1) \div 8), Pow2((i - 1) % 8))

\* the row {7, NULL, 99} of the schema {int4, text, int4}
ScenarioRow ==
    /\ desc = <<INT4, TEXT, INT4>>
    /\ in_isnull = <<FALSE, TRUE, FALSE>>
    /\ in_values[1].v = 7
    /\ in_values[3].v = 99

\* C3 (as the code has it): in a tuple built from a row with a null, bit i of
\* the null bitmap (bit i mod 8 of byte i div 8, least significant first, i
\* from 0) is 1 exactly when column i is NOT null and 0 when it is null; the
\* bitmap of {7, NULL, 99} under {int4, text, int4} is the byte 0b00000101.
C3_NullBitmap ==
    (tuple # NoTuple /\ HeapTupleHasNulls(tuple)) =>
        /\ \A i \in 1..Len(desc) : BitmapBit(i) <=> ~in_isnull[i]
        /\ ScenarioRow => tuple.t_bits = <<5>>

\* C3 as stated: bit i is 1 exactly when column i is null, and the bitmap of
\* {7, NULL, 99} is the byte 0b00000010.
C3_Original ==
    (tuple # NoTuple /\ HeapTupleHasNulls(tuple)) =>
        /\ \A i \in 1..Len(desc) : BitmapBit(i) <=> in_isnull[i]
        /\ ScenarioRow => tuple.t_bits = <<2>>

\* the tuple of {7, NULL, 99}
C3_Witness ==
    /\ tuple # NoTuple
    /\ HeapTupleHasNulls(tuple)
    /\ ScenarioRow

\* C4: heap_form_tuple and heap_form_minimal_tuple give a row without a null
\* no null bitmap (none in the header length either) and leave HEAP_HASNULL
\* clear; a row with a null gets the flag and a bitmap of ceil(natts / 8)
\* bytes, counted in the header length.
C4_BitmapPresence ==
    tuple # NoTuple =>
        LET hasnull == \E i \in 1..Len(in_isnull) : in_isnull[i]
            bitmap == IF hasnull THEN (Len(desc) + 7) \div 8 ELSE 0
            oid == IF HEAP_HASOID \in tuple.t_infomask THEN SizeofOid ELSE 0
        IN  /\ HeapTupleHasNulls(tuple) <=> hasnull
            /\ Len(tuple.t_bits) = bitmap
            /\ tuple.t_hoff =
                 IF tuple.minimal
                 THEN MAXALIGN(SizeofMinimalTupleHeader + bitmap + oid)
                      + MINIMAL_TUPLE_OFFSET
                 ELSE MAXALIGN(SizeofHeapTupleHeader + bitmap + oid)

\* a minimal tuple of a row of several columns, none of them null
C4_Witness ==
    /\ tuple # NoTuple
    /\ tuple.minimal
    /\ Len(desc) > 1
    /\ \A i \in 1..Len(in_isnull) : ~in_isnull[i]

\* where the write cursor stood when column j of tuple t was filled
RECURSIVE CursorBefore(_, _)
CursorBefore(t, j) ==
    IF j = 1 THEN 0
    ELSE IF t.ats[j - 1] = NoPtr THEN CursorBefore(t, j - 1)
    ELSE t.ats[j - 1] + t.lens[j - 1]

\* offset off of the data area of t is a byte of one of its columns
InColumn(t, off) ==
    \E j \in 1..Len(t.ats) :
        t.ats[j] # NoPtr /\ t.ats[j] <= off /\ off < t.ats[j] + t.lens[j]

\* C7: every byte of the data area that belongs to no column is zero; a
\* stored short header never has a zero first byte; and the decoder's
\* alignment step (att_align_pointer), started where the previous column
\* ended, lands on the offset the variable-length column was written at,
\* taking padding for padding and a short header for a value.
C7_PaddingZero ==
    tuple # NoTuple =>
        /\ \A off \in 0..(Len(tuple.data) - 1) :
              ~InColumn(tuple, off) => ByteAt(tuple.data, off) = 0
        /\ \A j \in 1..Len(desc) :
              (tuple.ats[j] # NoPtr /\ desc[j].attlen = -1) =>
                 /\ VARATT_IS_1B(MemFrom(tuple.data, tuple.ats[j]))
                       => ByteAt(tuple.data, tuple.ats[j]) # 0
                 /\ att_align_pointer(CursorBefore(tuple, j), desc[j].attalign, -1,
                                      MemFrom(tuple.data, CursorBefore(tuple, j)))
                      = tuple.ats[j]

\* a tuple with padding ahead of a 4-byte-header value and a short value
\* stored at an unaligned offset
C7_Witness ==
    /\ tuple # NoTuple
    /\ \E j \in 1..Len(desc) :
          /\ tuple.ats[j] # NoPtr
          /\ desc[j].attlen = -1
          /\ tuple.ats[j] > CursorBefore(tuple, j)
    /\ \E j \in 1..Len(desc) :
          /\ tuple.ats[j] # NoPtr
          /\ desc[j].attlen = -1
          /\ tuple.ats[j] % 4 # 0

\* the size a variable-length value has with a 1-byte header
ShortFormSize(val) ==
    IF VARATT_IS_1B_E(val) THEN VARSIZE_EXTERNAL(val)
    ELSE IF VARATT_IS_1B(val) THEN VARSIZE_1B(val)
    ELSE VARSIZE_4B(val) - VARHDRSZ + VARHDRSZ_SHORT

\* the stored image of column j of the current tuple
Stored(j) == MemFrom(tuple.data, tuple.ats[j])

\* the non-null variable-length columns of the current tuple
VarlenaColumns ==
    {j \in 1..Len(desc) : tuple.ats[j] # NoPtr /\ desc[j].attlen = -1}

\* C8 (as the code has it): a plain value with an uncompressed 4-byte header
\* is stored in 1-byte-header form exactly when its column is packable and
\* its payload plus one header byte is at most 127 bytes; a compressed
\* 4-byte-header value is stored as it is, with its 4-byte header, whatever
\* its size; a value that comes with a 1-byte header (short, or an external
\* reference) is stored as it is whatever the column's storage strategy; an
\* expanded object is stored as its flat image.
C8_ShortFormThreshold ==
    tuple # NoTuple =>
        \A j \in VarlenaColumns :
            LET val == in_values[j].mem IN
            IF VARATT_IS_EXTERNAL_EXPANDED(val)
            THEN BytesAt(Stored(j), 0, tuple.lens[j]) = in_values[j].eoh
            ELSE IF VARATT_IS_1B(val) \/ VARATT_IS_4B_C(val)
            THEN BytesAt(Stored(j), 0, tuple.lens[j]) = val
            ELSE VARATT_IS_1B(Stored(j)) <=>
                    /\ desc[j].attstorage # "p"
                    /\ ShortFormSize(val) <= VARATT_SHORT_MAX

\* C8 as stated, with the size of a value taken as its size in short form
\* (the reading under which 50 bytes of payload are 51 <= 127): at most 127
\* bytes on a packable column is always stored with a 1-byte header; 128
\* bytes or more, or any value on a non-packable column, never is.
C8_Original ==
    tuple # NoTuple =>
        \A j \in VarlenaColumns :
            LET val == InputImage(in_values[j]) IN
            /\ (desc[j].attstorage # "p" /\ ShortFormSize(val) <= VARATT_SHORT_MAX)
                  => VARATT_IS_1B(Stored(j))
            /\ (desc[j].attstorage = "p" \/ ShortFormSize(val) > VARATT_SHORT_MAX)
                  => ~VARATT_IS_1B(Stored(j))

\* a row with a plain value of the largest payload that is packed and one
\* with a payload one byte longer, both on packable columns
C8_Witness ==
    /\ tuple # NoTuple
    /\ \E j \in VarlenaColumns, k \in VarlenaColumns :
          /\ desc[j].attstorage # "p"
          /\ desc[k].attstorage # "p"
          /\ VARATT_IS_4B_U(in_values[j].mem)
          /\ VARATT_IS_4B_U(in_values[k].mem)
          /\ ShortFormSize(in_values[j].mem) = VARATT_SHORT_MAX
          /\ ShortFormSize(in_values[k].mem) = VARATT_SHORT_MAX + 1

(***************************************************************************)
(* The decoders' claims, checked under SpecSlot.                           *)
(***************************************************************************)
\* what column i of the current tuple decodes to: a scalar is its value, a
\* by-reference value the offset the encoder wrote it at; a column the
\* tuple does not have is its entry in the Missing-Values table
ExpectedNull(i) ==
    IF i <= tuple.natts THEN in_isnull[i]
    ELSE ~(missing # NoMissing /\ missing[i].ammissingPresent)
ExpectedValue(i) ==
    IF i > tuple.natts THEN missing[i].ammissing
    ELSE IF desc[i].attbyval THEN [v |-> in_values[i].v, ptr |-> NoPtr]
    ELSE [v |-> 0, ptr |-> tuple.ats[i]]
CorrectAt(i, value, isnull) ==
    /\ isnull = ExpectedNull(i)
    /\ ~isnull => value = ExpectedValue(i)

\* C5: from a schema with no offset cached, after any sequence of
\* heap_deform_tuple, slot_deform_tuple and nocachegetattr calls on rows of
\* the schema, every decode result is right: each column heap_deform_tuple
\* returns, the column nocachegetattr returns and every valid entry of the
\* slot has the row's null flag and, when not null, the row's value read at
\* the offset the column was written at.
C5_CacheSound ==
    /\ ret.op = "heap_deform_tuple" =>
          \A i \in 1..Len(desc) : CorrectAt(i, ret.values[i], ret.isnull[i])
    /\ ret.op = "nocachegetattr" =>
          CorrectAt(ret.attnum, ret.values[1], ret.isnull[1])
    /\ \A i \in 1..slot.tts_nvalid :
          CorrectAt(i, slot.tts_values[i], slot.tts_isnull[i])

\* a slot fully extracted from a row with a null column ahead of a column
\* whose cached offset only the decode of another row can have set
C5_Witness ==
    /\ slot.tts_nvalid = Len(desc)
    /\ \E i \in 1..Len(in_values), j \in 1..Len(in_values) :
          /\ i < j
          /\ in_isnull[i]
          /\ ~in_isnull[j]
          /\ attcacheoff[j] >= 0

C10_NoOp ==
    [][ /\ (ret'.op = "slot_getsomeattrs" /\ ret'.attnum <= slot.tts_nvalid)
            => UNCHANGED <<slot, attcacheoff>>
        /\ ret'.op \in {"slot_getsomeattrs", "slot_getallattrs", "slot_getattr"}
            => slot'.tts_nvalid >= slot.tts_nvalid ]_vars

\* slot_getsomeattrs(slot, k) has returned with k below the number of valid
\* entries, on a slot that is on the slow path with a cached offset present
C10_Witness ==
    /\ ret.op = "slot_getsomeattrs"
    /\ ret.attnum < slot.tts_nvalid
    /\ slot.tts_slow
    /\ \E i \in 1..Len(desc) : attcacheoff[i] >= 0

(***************************************************************************)
(* Interleaved decoders, checked under SpecRace.                           *)
(***************************************************************************)
\* the offset of column i (counted from 1) in every row of the schema that
\* has no null before it, when there is one: the columns before it are all
\* of fixed width, and a variable-length column has no padding before it
RECURSIVE SchemaOffset(_)
SchemaOffset(i) ==
    IF i = 1 THEN 0
    ELSE LET prev == SchemaOffset(i - 1)
             end == prev + desc[i - 1].attlen
         IN  IF prev < 0 \/ desc[i - 1].attlen <= 0 THEN -1
             ELSE IF desc[i].attlen = -1 /\ end # att_align_nominal(end, desc[i].attalign)
             THEN -1
             ELSE att_align_nominal(end, desc[i].attalign)

\* column i as decoder d returned it is the column of d's row
DecodedRight(d, i) ==
    /\ d.isnull[i] = d.in_isnull[i]
    /\ ~d.isnull[i] =>
          d.values[i] = IF desc[i].attbyval THEN [v |-> d.in_values[i].v, ptr |-> NoPtr]
                        ELSE [v |-> 0, ptr |-> d.tuple.ats[i]]

\* every call that has returned has returned the columns of its row
RaceResultsRight ==
    \A p \in DOMAIN dec :
        dec[p].pc = "done" =>
            IF dec[p].op = "heap_deform_tuple"
            THEN \A i \in 1..Len(desc) : DecodedRight(dec[p], i)
            ELSE DecodedRight(dec[p], dec[p].attnum)

\* every write to a column's attcacheoff has stored the column's offset
RaceWritesTrue ==
    \A p \in DOMAIN dec :
        \A w \in dec[p].wrote : w[2] = SchemaOffset(w[1])

\* C6 as stated: with two decoders interleaved at single reads and writes
\* of attcacheoff, each on its own row of the shared schema, every call
\* returns the columns of its row, and every write to a column's attcacheoff
\* stores the one true offset of that column under the schema.
C6_Original == RaceResultsRight /\ RaceWritesTrue

(***************************************************************************)
(* expand_tuple (heap_expand_tuple, minimal_expand_tuple): a tuple with    *)
(* fewer columns than the schema, widened to the schema's column count.    *)
(***************************************************************************)
\* the Datum of entry i of the Missing-Values table, as fill_val and the
\* size macros are handed it
MissingDatum(attrmiss, i) ==
    [v |-> attrmiss[i].ammissing.v, mem |-> attrmiss[i].mem, eoh |-> <<>>]

\* lines 2170-2176: the first column from sourceNatts on (counted from 0)
\* whose entry is present, natts when there is none
RECURSIVE expand_firstmissingnum(_, _, _)
expand_firstmissingnum(attrmiss, natts, firstmissingnum) ==
    IF firstmissingnum < natts /\ ~attrmiss[firstmissingnum + 1].ammissingPresent
    THEN expand_firstmissingnum(attrmiss, natts, firstmissingnum + 1)
    ELSE firstmissingnum

\* lines 2192-2214: walk the columns from attnum on (counted from 0), making
\* room for each default and noting a column that has none
RECURSIVE expand_walk(_, _, _, _)
expand_walk(tupleDesc, attrmiss, attnum, s) ==
    IF attnum >= Len(tupleDesc) THEN s
    ELSE LET att == tupleDesc[attnum + 1] IN
         expand_walk(tupleDesc, attrmiss, attnum + 1,
             IF attrmiss[attnum + 1].ammissingPresent
             THEN [s EXCEPT !.targetDataLen =
                      att_addlength_pointer(
                          att_align_datum(@, att.attalign, att.attlen,
                                          MissingDatum(attrmiss, attnum + 1)),
                          att.attlen, attrmiss[attnum + 1].mem)]
             ELSE [s EXCEPT !.hasNulls = TRUE])

\* lines 2131-2224: hasNulls and targetDataLen
expand_size(sourceTuple, tupleDesc, attrmiss) ==
    LET natts == Len(tupleDesc)
        sourceNatts == HeapTupleHeaderGetNatts(sourceTuple)
        s0 == [hasNulls |-> HeapTupleHasNulls(sourceTuple),
               targetDataLen |-> sourceTuple.t_len - sourceTuple.t_hoff]
    IN  IF attrmiss # NoMissing
        THEN LET firstmissingnum == expand_firstmissingnum(attrmiss, natts, sourceNatts) IN
             IF firstmissingnum >= natts
             THEN [s0 EXCEPT !.hasNulls = TRUE]
             ELSE expand_walk(tupleDesc, attrmiss, firstmissingnum, s0)
        ELSE [s0 EXCEPT !.hasNulls = TRUE]

\* lines 2290-2319: the target's bitmap before the new columns are added,
\* with the position in it (bit: the index of the current byte, bitMask).
\* Without a target bitmap nullBits stays NULL and bitMask 0.
expand_bitmap(sourceTuple, targetNullLen) ==
    LET sourceNatts == HeapTupleHeaderGetNatts(sourceTuple)
        hadNulls == HeapTupleHasNulls(sourceTuple)
        sourceNullLen == BITMAPLEN(sourceNatts)
    IN  IF targetNullLen = 0
        THEN [bits |-> <<>>, bit |-> -1, bitMask |-> 0]
        ELSE [bits |->
                 IF hadNulls
                 THEN WriteAt(palloc0(targetNullLen), 0,
                              BytesAt(sourceTuple.t_bits, 0, sourceNullLen))
                 ELSE LET ones == WriteAt(palloc0(targetNullLen), 0,
                                          [i \in 1..sourceNullLen |-> 255])
                      IN  IF sourceNatts % 8 # 0
                          THEN WriteAt(ones, sourceNullLen - 1,
                                       <<Pow2(sourceNatts % 8) - 1>>)
                          ELSE ones,
              bit |-> sourceNullLen - 1,
              bitMask |-> Pow2((sourceNatts - 1) % 8)]

\* lines 2328-2353: the columns the source does not have, attnum counted
\* from 0; a default is written with a bitmap when there is one, a null
\* always through the address of nullBits
RECURSIVE expand_fill(_, _, _, _, _)
expand_fill(tupleDesc, attrmiss, hasbits, attnum, st) ==
    IF attnum >= Len(tupleDesc) THEN st
    ELSE expand_fill(tupleDesc, attrmiss, hasbits, attnum + 1,
             IF attrmiss # NoMissing /\ attrmiss[attnum + 1].ammissingPresent
             THEN fill_val(tupleDesc[attnum + 1], hasbits, st,
                           MissingDatum(attrmiss, attnum + 1), FALSE)
             ELSE fill_val(tupleDesc[attnum + 1], TRUE, st, NullDatum, TRUE))

expand_tuple(sourceTuple, tupleDesc, attrmiss, tdhasoid, minimal) ==
    LET natts == Len(tupleDesc)
        sourceNatts == HeapTupleHeaderGetNatts(sourceTuple)
        sourceDataLen == sourceTuple.t_len - sourceTuple.t_hoff
        sz == expand_size(sourceTuple, tupleDesc, attrmiss)
        targetNullLen == IF sz.hasNulls THEN BITMAPLEN(natts) ELSE 0
        hoff == MAXALIGN(form_header_len(
                    IF minimal THEN SizeofMinimalTupleHeader ELSE SizeofHeapTupleHeader,
                    natts, sz.hasNulls, tdhasoid))
        bm == expand_bitmap(sourceTuple, targetNullLen)
        st == expand_fill(tupleDesc, attrmiss, targetNullLen > 0, sourceNatts,
                  [bit |-> bm.bit,
                   bitmask |-> bm.bitMask,
                   bits |-> bm.bits,
                   buf |-> WriteAt(palloc0(sz.targetDataLen), 0,
                                   BytesAt(sourceTuple.data, 0, sourceDataLen)),
                   data |-> sourceDataLen,
                   infomask |-> sourceTuple.t_infomask,
                   ats |-> sourceTuple.ats,
                   lens |-> sourceTuple.lens])
    IN  [t_len |-> hoff + sz.targetDataLen,
         t_hoff |-> IF minimal THEN hoff + MINIMAL_TUPLE_OFFSET ELSE hoff,
         natts |-> natts,
         t_infomask |-> st.infomask,
         t_bits |-> st.bits,
         data |-> st.buf,
         fill |-> st.data,
         ats |-> st.ats,
         lens |-> st.lens,
         minimal |-> minimal,
         t_self |-> IF minimal THEN InvalidItemPointer ELSE sourceTuple.t_self,
         t_ctid |-> InvalidItemPointer,
         t_tableOid |-> IF minimal THEN InvalidOid ELSE sourceTuple.t_tableOid,
         t_oid |-> InvalidOid]

heap_expand_tuple(sourceTuple, tupleDesc, attrmiss, tdhasoid) ==
    expand_tuple(sourceTuple, tupleDesc, attrmiss, tdhasoid, FALSE)

minimal_expand_tuple(sourceTuple, tupleDesc, attrmiss, tdhasoid) ==
    expand_tuple(sourceTuple, tupleDesc, attrmiss, tdhasoid, TRUE)

(***************************************************************************)
(* SpecExpand: rows stored before columns were added to their schema,      *)
(* fetched from the table and widened.                                     *)
(***************************************************************************)
\* where a stored row lives: its location and the table that owns it
StoredIdentity == [t_self |-> 3, t_ctid |-> 5, t_tableOid |-> 16384, t_oid |-> 77]

\* the schemas: the scenario of two defaults after three columns; a column
\* added without a default before one added with a default, and the other
\* way round; no table of defaults at all; a row of eight columns and one of
\* seven, widened across the end of a bitmap byte; and a row with no column
ExpandSchemas ==
    { Schema(<<INT4, TEXT, INT4, HasMissing(INT4), HasMissing(TEXT)>>,
             <<NoEntry, NoEntry, NoEntry, MissingEntry(42),
               MissingRef(5, FullVarlena(<<120>>))>>, 3),
      Schema(<<INT4, CHAR1, INT4, HasMissing(INT4)>>,
             <<NoEntry, NoEntry, NoEntry, MissingEntry(42)>>, 2),
      Schema(<<CHAR1, HasMissing(TEXT), INT4, HasMissing(INT2)>>,
             <<NoEntry, MissingRef(2, ShortVarlena(<<120>>)), NoEntry,
               MissingEntry(258)>>, 1),
      Schema(<<INT4, TEXT, INT4>>, NoMissing, 1),
      Schema([i \in 1..9 |-> IF i = 9 THEN INT4 ELSE CHAR1], NoMissing, 8),
      Schema([i \in 1..9 |-> IF i >= 8 THEN HasMissing(INT2) ELSE CHAR1],
             [i \in 1..9 |-> IF i >= 8 THEN MissingEntry(258) ELSE NoEntry], 7),
      Schema(<<HasMissing(INT4), INT2>>, <<MissingEntry(42), NoEntry>>, 0) }

InitExpand ==
    \E sch \in ExpandSchemas :
        /\ desc = sch.desc
        /\ missing = sch.missing
        /\ attcacheoff = [i \in 1..Len(sch.desc) |-> -1]
        /\ in_values = <<>>
        /\ in_isnull = <<>>
        /\ tuple = NoTuple
        /\ slot = EmptySlot(Len(sch.desc))
        /\ ret = Ret("init", 0, <<>>, <<>>)
        /\ dec = <<>>
        /\ newTuple = NoTuple
        /\ datarow = NoDataRow

\* the stored rows of a schema that have fewer columns than it
ShortRows ==
    UNION { UNION { { [desc |-> sch.desc, natts |-> n,
                       values |-> RowValues(row), isnull |-> RowIsnull(row)]
                      : row \in Rows(sch.desc, n, SmallValuesOf) }
                    : n \in sch.firstatts..(Len(sch.desc) - 1) }
            : sch \in ExpandSchemas }

\* a row fetched from the table: the tuple heap_form_tuple built under the
\* schema of its time, with the identity the table gave it
FetchShortTuple ==
    \E r \in ShortRows, tdhasoid \in BOOLEAN :
        /\ tuple = NoTuple
        /\ r.desc = desc
        /\ tuple' = [heap_form_tuple(SubSeq(desc, 1, r.natts), r.values, r.isnull,
                                     tdhasoid)
                        EXCEPT !.t_self = StoredIdentity.t_self,
                               !.t_ctid = StoredIdentity.t_ctid,
                               !.t_tableOid = StoredIdentity.t_tableOid,
                               !.t_oid = IF tdhasoid THEN StoredIdentity.t_oid
                                         ELSE InvalidOid]
        /\ in_values' = r.values
        /\ in_isnull' = r.isnull
        /\ newTuple' = NoTuple
        /\ ret' = Ret("heap_form_tuple", r.natts, <<>>, <<>>)
        /\ UNCHANGED <<datarow, dec, desc, missing, attcacheoff, slot>>

HeapExpandTuple ==
    /\ tuple # NoTuple
    /\ newTuple' = heap_expand_tuple(tuple, desc, missing, HEAP_HASOID \in tuple.t_infomask)
    /\ ret' = Ret("heap_expand_tuple", 0, <<>>, <<>>)
    /\ UNCHANGED <<datarow, dec, desc, missing, attcacheoff, in_values, in_isnull, tuple, slot>>

MinimalExpandTuple ==
    /\ tuple # NoTuple
    /\ newTuple' = minimal_expand_tuple(tuple, desc, missing, HEAP_HASOID \in tuple.t_infomask)
    /\ ret' = Ret("minimal_expand_tuple", 0, <<>>, <<>>)
    /\ UNCHANGED <<datarow, dec, desc, missing, attcacheoff, in_values, in_isnull, tuple, slot>>

NextExpand ==
    \/ FetchShortTuple
    \/ HeapExpandTuple
    \/ MinimalExpandTuple

SpecExpand == InitExpand /\ [][NextExpand]_vars

(***************************************************************************)
(* The claim about expand, checked under SpecExpand.                       *)
(***************************************************************************)
\* column i of the schema has a default the Missing-Values table marks present
DefaultPresent(i) == missing # NoMissing /\ missing[i].ammissingPresent

\* the widened row decoded afresh
ExpandedDecode ==
    heap_deform_tuple(newTuple, desc, missing, [i \in 1..Len(desc) |-> -1])

\* the row has the has-nulls representation: the flag and a bitmap of
\* ceil(natts / 8) bytes
HasNullsRepresentation(t) ==
    /\ HEAP_HASNULL \in t.t_infomask
    /\ Len(t.t_bits) = BITMAPLEN(t.natts)

ExpandKeepsColumns ==
    \A i \in 1..tuple.natts :
        /\ ExpandedDecode.isnull[i] = in_isnull[i]
        /\ ~in_isnull[i] =>
              DatumEqual(desc[i], in_values[i], ExpandedDecode.values[i], newTuple)

ExpandFillsDefaults ==
    \A i \in (tuple.natts + 1)..Len(desc) :
        IF DefaultPresent(i)
        THEN /\ ~ExpandedDecode.isnull[i]
             /\ DatumEqual(desc[i], MissingDatum(missing, i),
                           ExpandedDecode.values[i], newTuple)
        ELSE ExpandedDecode.isnull[i]

ExpandHasNulls ==
    (\E i \in (tuple.natts + 1)..Len(desc) : ~DefaultPresent(i))
        => HasNullsRepresentation(newTuple)

\* C11: the row heap_expand_tuple / minimal_expand_tuple returns has the
\* schema's column count; decoded, every column of the source row has the
\* source's value and null flag, every added column with a default present
\* holds the default and every other added column is null; and the row has
\* the has-nulls representation whenever an added column has no default.
C11_Original ==
    ret.op \in {"heap_expand_tuple", "minimal_expand_tuple"} =>
        /\ newTuple.natts = Len(desc)
        /\ ExpandKeepsColumns
        /\ ExpandFillsDefaults
        /\ ExpandHasNulls

(***************************************************************************)
(* heap_modify_tuple and heap_modify_tuple_by_cols.  The values array the  *)
(* old tuple is decoded into is handed on to heap_form_tuple: a            *)
(* by-reference Datum in it is a pointer into the old tuple's data area,   *)
(* or into the Missing-Values table.                                       *)
(***************************************************************************)
\* the Datum a decoder returned, as heap_form_tuple reads it
PointerInto(tup, attrmiss, datum) ==
    IF datum.ptr >= 0
    THEN [v |-> datum.v, mem |-> MemFrom(tup.data, datum.ptr), eoh |-> <<>>]
    ELSE IF datum.ptr = NoPtr
    THEN [v |-> datum.v, mem |-> <<>>, eoh |-> <<>>]
    ELSE [v |-> datum.v, mem |-> attrmiss[(0 - datum.ptr) - 1].mem, eoh |-> <<>>]

\* HeapTupleGetOid
HeapTupleGetOid(tup) == IF HEAP_HASOID \in tup.t_infomask THEN tup.t_oid ELSE InvalidOid

\* a modify that leaves the new tuple the identity heap_form_tuple gave it
modify_identity_none(newTup, tup, tdhasoid) == newTup

\* lines 1043-1050 and 1112-1116: copy the identification info of the old
\* tuple
modify_identity(newTup, tup, tdhasoid) ==
    [newTup EXCEPT !.t_ctid = tup.t_ctid,
                   !.t_self = tup.t_self,
                   !.t_tableOid = tup.t_tableOid,
                   !.t_oid = IF tdhasoid THEN HeapTupleGetOid(tup) ELSE @]

\* lines 1017-1050
heap_modify_tuple(tup, tupleDesc, attrmiss, cache, replValues, replIsnull, doReplace, tdhasoid) ==
    LET numberOfAttributes == Len(tupleDesc)
        d == heap_deform_tuple(tup, tupleDesc, attrmiss, cache)
        values == [attoff \in 1..numberOfAttributes |->
                      IF doReplace[attoff] THEN replValues[attoff]
                      ELSE PointerInto(tup, attrmiss, d.values[attoff])]
        isnull == [attoff \in 1..numberOfAttributes |->
                      IF doReplace[attoff] THEN replIsnull[attoff]
                      ELSE d.isnull[attoff]]
    IN  [newTuple |-> modify_identity(
                          heap_form_tuple(tupleDesc, values, isnull, tdhasoid),
                          tup, tdhasoid),
         cache |-> d.cache]

\* a test that lets column number 0 through
modify_col_invalid_negative(attnum, numberOfAttributes) ==
    attnum < 0 \/ attnum > numberOfAttributes

\* line 1094: the column number is out of range
modify_col_invalid(attnum, numberOfAttributes) ==
    attnum <= 0 \/ attnum > numberOfAttributes

\* lines 1090-1098: entry i (counted from 1) of the replacement list and
\* those after it; s.err is set where elog(ERROR) leaves the loop
RECURSIVE modify_cols_loop(_, _, _, _, _, _)
modify_cols_loop(numberOfAttributes, replCols, replValues, replIsnull, i, s) ==
    IF i > Len(replCols) THEN s
    ELSE LET attnum == replCols[i] IN
         IF modify_col_invalid(attnum, numberOfAttributes)
         THEN [s EXCEPT !.err = "invalid column number"]
         ELSE modify_cols_loop(numberOfAttributes, replCols, replValues, replIsnull,
                  i + 1,
                  [s EXCEPT !.values[attnum] = replValues[i],
                            !.isnull[attnum] = replIsnull[i]])

\* lines 1085-1118; newTuple is NoTuple when the call raised the error
heap_modify_tuple_by_cols(tup, tupleDesc, attrmiss, cache, replCols, replValues, replIsnull, tdhasoid) ==
    LET numberOfAttributes == Len(tupleDesc)
        d == heap_deform_tuple(tup, tupleDesc, attrmiss, cache)
        s == modify_cols_loop(numberOfAttributes, replCols, replValues, replIsnull, 1,
                 [values |-> [i \in 1..numberOfAttributes |->
                                 PointerInto(tup, attrmiss, d.values[i])],
                  isnull |-> d.isnull,
                  err |-> ""])
    IN  IF s.err # ""
        THEN [newTuple |-> NoTuple, cache |-> d.cache, err |-> s.err]
        ELSE [newTuple |-> modify_identity(
                               heap_form_tuple(tupleDesc, s.values, s.isnull, tdhasoid),
                               tup, tdhasoid),
              cache |-> d.cache, err |-> ""]

(***************************************************************************)
(* SpecModify: a row fetched from its table and modified, by mask and by   *)
(* column list.                                                            *)
(***************************************************************************)
\* the replacement values of a column: none of them a value a stored row has
ReplValues(att) ==
    IF att.attbyval
    THEN IF att.attlen = 4 THEN {IntDatum(11)}
         ELSE IF att.attlen = 2 THEN {IntDatum(513)}
         ELSE {IntDatum(66)}
    ELSE IF att.attlen = -1
    THEN {PtrDatum(FullVarlena(<<120, 121, 122>>))}
    ELSE IF att.attlen = -2
    THEN {PtrDatum(<<120, 0>>)}
    ELSE {PtrDatum([i \in 1..att.attlen |-> 120])}
ReplValuesOf == [att \in AllAtts |-> ReplValues(BaseAtt(att))]

\* the longest replacement list of heap_modify_tuple_by_cols
MaxCols == 2

\* the lists of at most n column numbers, each from one below the valid
\* numbers to one above
RECURSIVE ColLists(_, _)
ColLists(natts, n) ==
    IF n = 0 THEN {<<>>}
    ELSE ColLists(natts, n - 1)
         \cup {Append(l, c) : l \in {k \in ColLists(natts, n - 1) : Len(k) = n - 1},
                              c \in 0..(natts + 1)}

\* the replacement cells for a list of column numbers: of the column's type
\* where the number is valid
RECURSIVE ReplCells(_, _)
ReplCells(replCols, n) ==
    IF n = 0 THEN {<<>>}
    ELSE {Append(r, c) : r \in ReplCells(replCols, n - 1),
                         c \in IF replCols[n] \in 1..Len(desc)
                               THEN Cells(desc[replCols[n]], ReplValuesOf)
                               ELSE {[datum |-> NullDatum, isnull |-> TRUE]}}

RetModify(op, cols, values, isnull) ==
    [op |-> op, attnum |-> 0, values |-> values, isnull |-> isnull, cols |-> cols]
RetModifyError(op, cols, values, isnull, err) ==
    [op |-> op, attnum |-> 0, values |-> values, isnull |-> isnull, cols |-> cols,
     err |-> err]

\* the schemas rows are modified under: one of them has had columns added
ModifySchemas ==
    {sch \in Schemas : sch.desc \in {<<INT4, TEXT, INT4>>, <<CHAR1, CSTRING, INT2>>,
                                     <<INT4, CHAR1, HasMissing(INT4), TEXT>>}}

InitModify ==
    \E sch \in ModifySchemas :
        /\ desc = sch.desc
        /\ missing = sch.missing
        /\ attcacheoff = [i \in 1..Len(sch.desc) |-> -1]
        /\ in_values = <<>>
        /\ in_isnull = <<>>
        /\ tuple = NoTuple
        /\ slot = EmptySlot(Len(sch.desc))
        /\ ret = Ret("init", 0, <<>>, <<>>)
        /\ dec = <<>>
        /\ newTuple = NoTuple
        /\ datarow = NoDataRow

\* a row fetched from the table, stored under the schema or before columns
\* were added to it
FetchTuple ==
    \E r \in TinyFormed, tdhasoid \in BOOLEAN :
        /\ tuple = NoTuple
        /\ r.desc = desc
        /\ r.missing = missing
        /\ tuple' = [heap_form_tuple(SubSeq(desc, 1, r.natts), r.values, r.isnull,
                                     tdhasoid)
                        EXCEPT !.t_self = StoredIdentity.t_self,
                               !.t_ctid = StoredIdentity.t_ctid,
                               !.t_tableOid = StoredIdentity.t_tableOid,
                               !.t_oid = IF tdhasoid THEN StoredIdentity.t_oid
                                         ELSE InvalidOid]
        /\ in_values' = r.values
        /\ in_isnull' = r.isnull
        /\ ret' = Ret("heap_form_tuple", r.natts, <<>>, <<>>)
        /\ UNCHANGED <<newTuple, datarow, dec, desc, missing, attcacheoff, slot>>

\* each row is modified once, as fetched
HeapModifyTuple ==
    /\ ret.op = "heap_form_tuple"
    /\ \E doReplace \in [1..Len(desc) -> BOOLEAN], row \in Rows(desc, Len(desc), ReplValuesOf) :
        LET r == heap_modify_tuple(tuple, desc, missing, attcacheoff, RowValues(row),
                                   RowIsnull(row), doReplace,
                                   HEAP_HASOID \in tuple.t_infomask)
        IN  /\ newTuple' = r.newTuple
            /\ attcacheoff' = r.cache
            /\ ret' = RetModify("heap_modify_tuple", doReplace, RowValues(row),
                                RowIsnull(row))
    /\ UNCHANGED <<datarow, dec, desc, missing, in_values, in_isnull, tuple, slot>>

HeapModifyTupleByCols ==
    /\ ret.op = "heap_form_tuple"
    /\ \E replCols \in ColLists(Len(desc), MaxCols) :
       \E row \in ReplCells(replCols, Len(replCols)) :
        LET r == heap_modify_tuple_by_cols(tuple, desc, missing, attcacheoff, replCols,
                                           RowValues(row), RowIsnull(row),
                                           HEAP_HASOID \in tuple.t_infomask)
        IN  /\ newTuple' = r.newTuple
            /\ attcacheoff' = r.cache
            /\ ret' = IF r.err # ""
                      THEN RetModifyError("heap_modify_tuple_by_cols", replCols,
                                          RowValues(row), RowIsnull(row), r.err)
                      ELSE RetModify("heap_modify_tuple_by_cols", replCols,
                                     RowValues(row), RowIsnull(row))
    /\ UNCHANGED <<datarow, dec, desc, missing, in_values, in_isnull, tuple, slot>>

NextModify ==
    \/ FetchTuple
    \/ HeapModifyTuple
    \/ HeapModifyTupleByCols

SpecModify == InitModify /\ [][NextModify]_vars

(***************************************************************************)
(* The claims about modify, checked under SpecModify.                      *)
(***************************************************************************)
ModifyOps == {"heap_modify_tuple", "heap_modify_tuple_by_cols"}

\* the bytes of the one value of column att that starts the memory mem
ValueBytes(att, mem) ==
    IF att.attlen = -1 THEN BytesAt(mem, 0, VARSIZE_ANY(mem))
    ELSE IF att.attlen = -2 THEN BytesAt(mem, 0, strlen(mem) + 1)
    ELSE BytesAt(mem, 0, att.attlen)

\* the Datum a decode of tuple tup returned for column att, as a value of
\* its own
DecodedValue(att, tup, datum) ==
    IF att.attbyval THEN IntDatum(datum.v)
    ELSE PtrDatum(ValueBytes(att, PointerInto(tup, missing, datum).mem))

\* the last call's replacement for column i: whether it has one, and the
\* entry of the replacement arrays that holds it (the last one that names i)
Replaced(i) ==
    IF ret.op = "heap_modify_tuple" THEN ret.cols[i]
    ELSE \E k \in 1..Len(ret.cols) : ret.cols[k] = i
ReplEntry(i) ==
    IF ret.op = "heap_modify_tuple" THEN i
    ELSE CHOOSE k \in 1..Len(ret.cols) :
             /\ ret.cols[k] = i
             /\ \A m \in (k + 1)..Len(ret.cols) : ret.cols[m] # i

FreshCache == [i \in 1..Len(desc) |-> -1]

ModifiedRight ==
    LET old == heap_deform_tuple(tuple, desc, missing, FreshCache)
        new == heap_deform_tuple(newTuple, desc, missing, FreshCache)
    IN  /\ newTuple.natts = Len(desc)
        /\ \A i \in 1..Len(desc) :
              IF Replaced(i)
              THEN /\ new.isnull[i] = ret.isnull[ReplEntry(i)]
                   /\ ~new.isnull[i] =>
                         DatumEqual(desc[i], ret.values[ReplEntry(i)], new.values[i],
                                    newTuple)
              ELSE /\ new.isnull[i] = old.isnull[i]
                   /\ ~new.isnull[i] =>
                         DatumEqual(desc[i], DecodedValue(desc[i], tuple, old.values[i]),
                                    new.values[i], newTuple)
        /\ newTuple.t_self = tuple.t_self
        /\ newTuple.t_ctid = tuple.t_ctid
        /\ newTuple.t_tableOid = tuple.t_tableOid

\* the original tuple is still the tuple that was fetched: the one built
\* from the row in_values / in_isnull, with the identity the table gave it
OriginalIntact ==
    LET tdhasoid == HEAP_HASOID \in tuple.t_infomask IN
    tuple = [heap_form_tuple(SubSeq(desc, 1, Len(in_values)), in_values, in_isnull,
                             tdhasoid)
                EXCEPT !.t_self = StoredIdentity.t_self,
                       !.t_ctid = StoredIdentity.t_ctid,
                       !.t_tableOid = StoredIdentity.t_tableOid,
                       !.t_oid = IF tdhasoid THEN StoredIdentity.t_oid ELSE InvalidOid]

\* C12: after a heap_modify_tuple or heap_modify_tuple_by_cols call that
\* returned, the original tuple is as it was fetched, and the tuple
\* returned decodes to the original's decode with exactly the selected
\* columns replaced by the given values and null flags (the later entry for
\* a column listed twice) and has the original's t_self, t_ctid and
\* t_tableOid.
C12_Modify ==
    (ret.op \in ModifyOps /\ ~Raised(ret)) => (OriginalIntact /\ ModifiedRight)

\* a row stored before columns were added, modified by a list that names
\* one column twice with different entries
C12_Witness ==
    /\ ret.op = "heap_modify_tuple_by_cols"
    /\ ~Raised(ret)
    /\ tuple.natts < Len(desc)
    /\ Len(ret.cols) = 2
    /\ ret.cols[1] = ret.cols[2]
    /\ ret.isnull[1] # ret.isnull[2]
    /\ newTuple.t_self = StoredIdentity.t_self

\* C13: a heap_modify_tuple_by_cols call whose list holds a column number
\* <= 0 or above the schema's column count raises the invalid-column error
\* and returns no tuple, wherever in the list the number stands, and the
\* original tuple is as it was fetched.
C13_InvalidColumn ==
    (/\ ret.op = "heap_modify_tuple_by_cols"
     /\ \E k \in 1..Len(ret.cols) : ret.cols[k] <= 0 \/ ret.cols[k] > Len(desc))
    => /\ Raised(ret)
       /\ ret.err = "invalid column number"
       /\ newTuple = NoTuple
       /\ OriginalIntact

\* the error raised for a list whose first entry is valid
C13_Witness ==
    /\ ret.op = "heap_modify_tuple_by_cols"
    /\ Raised(ret)
    /\ Len(ret.cols) = 2
    /\ ret.cols[1] \in 1..Len(desc)
    /\ ret.cols[2] = 0
    /\ tuple # NoTuple

SysAttr ==
    [SelfItemPointerAttributeNumber |-> 0 - 1,
     ObjectIdAttributeNumber |-> 0 - 2,
     MinTransactionIdAttributeNumber |-> 0 - 3,
     MinCommandIdAttributeNumber |-> 0 - 4,
     MaxTransactionIdAttributeNumber |-> 0 - 5,
     MaxCommandIdAttributeNumber |-> 0 - 6,
     TableOidAttributeNumber |-> 0 - 7,
     XC_NodeIdAttributeNumber |-> 0 - 8,
     ShardIdAttributeNumber |-> 0 - 9,
     XmaxGTSIdAttributeNumber |-> 0 - 10,
     XminGTSAttributeNumber |-> 0 - 11,
     FirstLowInvalidHeapAttributeNumber |-> 0 - 12]

\* a heap_getsysattr that reports every system attribute as null
heap_getsysattr_null(tup, attnum) ==
    [value |-> NullResult, isnull |-> TRUE, err |-> ""]

\* heap_getsysattr, lines 656-712: the header field the answer is read
\* from, with its content for the fields a tuple of the model carries
heap_getsysattr(tup, attnum) ==
    LET answer(datum) == [value |-> datum, isnull |-> FALSE, err |-> ""] IN
    IF attnum = SysAttr.SelfItemPointerAttributeNumber
    THEN answer([field |-> "t_self", v |-> tup.t_self])
    ELSE IF attnum = SysAttr.ObjectIdAttributeNumber
    THEN answer([field |-> "t_oid", v |-> HeapTupleGetOid(tup)])
    ELSE IF attnum = SysAttr.MinTransactionIdAttributeNumber
    THEN answer([field |-> "t_xmin"])
    ELSE IF attnum = SysAttr.MaxTransactionIdAttributeNumber
    THEN answer([field |-> "t_xmax"])
    ELSE IF attnum \in {SysAttr.MinCommandIdAttributeNumber,
                        SysAttr.MaxCommandIdAttributeNumber}
    THEN answer([field |-> "t_cid"])
    ELSE IF attnum = SysAttr.TableOidAttributeNumber
    THEN answer([field |-> "t_tableOid", v |-> tup.t_tableOid])
    ELSE IF attnum = SysAttr.XC_NodeIdAttributeNumber
    THEN answer([field |-> "t_xc_node_id"])
    ELSE IF attnum = SysAttr.ShardIdAttributeNumber
    THEN answer([field |-> "t_shardid"])
    ELSE IF attnum = SysAttr.XmaxGTSIdAttributeNumber
    THEN answer([field |-> "t_xmax_timestamp"])
    ELSE IF attnum = SysAttr.XminGTSAttributeNumber
    THEN answer([field |-> "t_xmin_timestamp"])
    ELSE [value |-> NullResult, isnull |-> FALSE, err |-> "invalid attnum"]

\* heap_attisnull, lines 369-418
heap_attisnull(tup, attnum, tupleDesc) ==
    IF attnum > HeapTupleHeaderGetNatts(tup)
    THEN [isnull |-> ~tupleDesc[attnum].atthasmissing, err |-> ""]
    ELSE IF attnum > 0
    THEN [isnull |-> IF HeapTupleNoNulls(tup) THEN FALSE
                     ELSE att_isnull(attnum - 1, tup.t_bits),
          err |-> ""]
    ELSE IF attnum \in {SysAttr.TableOidAttributeNumber,
                        SysAttr.SelfItemPointerAttributeNumber,
                        SysAttr.ObjectIdAttributeNumber,
                        SysAttr.MinTransactionIdAttributeNumber,
                        SysAttr.MinCommandIdAttributeNumber,
                        SysAttr.MaxTransactionIdAttributeNumber,
                        SysAttr.MaxCommandIdAttributeNumber,
                        SysAttr.XC_NodeIdAttributeNumber}
    THEN [isnull |-> FALSE, err |-> ""]
    ELSE [isnull |-> FALSE, err |-> "invalid attnum"]

\* ntohs / ntohl of the bytes at the cursor; the 32-bit length is signed
ntohs(msg, cur) == FromBytes(BytesAt(msg, cur, 2))
ntohl(msg, cur) == fetch_att(msg, cur, 4)

\* the type input function of a column applied to the text of a field
\* (InputFunctionCall): the number a decimal text denotes for a by-value
\* column, a variable-length value with a 4-byte header, or the
\* null-terminated string.  A by-reference result is the copy made in the
\* slot's tts_drowcxt, carried as mem.
RECURSIVE pg_atoi(_)
pg_atoi(text) ==
    IF text = <<>> THEN 0
    ELSE 10 * pg_atoi(SubSeq(text, 1, Len(text) - 1)) + (text[Len(text)] - 48)
InputFunctionCall(att, text) ==
    IF att.attbyval THEN [v |-> pg_atoi(text), ptr |-> NoPtr]
    ELSE IF att.attlen = -1 THEN [v |-> 0, ptr |-> NoPtr, mem |-> FullVarlena(text)]
    ELSE [v |-> 0, ptr |-> NoPtr, mem |-> text \o <<0>>]

\* lines 1442-1577: the fields from column i (counted from 0) on, the read
\* cursor at cur (fields of composite type, length -2, are not modelled)
RECURSIVE datarow_fields(_, _, _, _, _)
datarow_fields(msg, tupleDesc, i, cur, s) ==
    IF i >= Len(tupleDesc) THEN s
    ELSE LET len == ntohl(msg, cur) IN
         IF len = -1
         THEN datarow_fields(msg, tupleDesc, i + 1, cur + 4,
                  [s EXCEPT !.tts_values[i + 1] = NullResult,
                            !.tts_isnull[i + 1] = TRUE])
         ELSE datarow_fields(msg, tupleDesc, i + 1, cur + 4 + len,
                  [s EXCEPT !.tts_values[i + 1] =
                                InputFunctionCall(tupleDesc[i + 1],
                                                  BytesAt(msg, cur + 4, len)),
                            !.tts_isnull[i + 1] = FALSE])

\* a decoder that only refuses a message with too few columns
datarow_mismatch_fewer(col_count, natts) == col_count < natts

\* line 1412: the message's column count is not the schema's
datarow_mismatch(col_count, natts) == col_count # natts

\* slot_deform_datarow, lines 1402-1581
slot_deform_datarow(s, drow, tupleDesc) ==
    LET natts == Len(tupleDesc)
        col_count == ntohs(drow, 0)
    IN  IF s.tts_nvalid = natts THEN [slot |-> s, err |-> ""]
        ELSE IF datarow_mismatch(col_count, natts)
        THEN [slot |-> s, err |-> "ERRCODE_DATA_CORRUPTED"]
        ELSE [slot |-> [datarow_fields(drow, tupleDesc, 0, 2, s)
                           EXCEPT !.tts_nvalid = natts],
              err |-> ""]

\* what a slot call gives
SlotAnswer(s, cache, value, isnull) ==
    [slot |-> s, cache |-> cache, value |-> value, isnull |-> isnull, err |-> ""]
SlotError(s, cache, err) ==
    [slot |-> s, cache |-> cache, value |-> NullResult, isnull |-> FALSE, err |-> err]

\* an out-of-range answer that is not null
OutOfRangeAnswer_notnull(s, cache) == SlotAnswer(s, cache, NullResult, FALSE)

\* lines 1627-1631: the answer for an attribute number out of range
\* according to the tupdesc
OutOfRangeAnswer(s, cache) == SlotAnswer(s, cache, NullResult, TRUE)

\* a slot that takes a missing physical tuple for a tuple without columns
slot_no_tuple_never(tup) == FALSE

\* lines 1647, 1728, 1785 and 1859: the slot has no physical tuple
slot_no_tuple(tup) == tup = NoTuple

\* slot_getattr, lines 1599-1694, on a slot of any kind
slot_getattr_any(s, tup, drow, attnum, tupleDesc, attrmiss, cache) ==
    IF attnum <= 0
    THEN IF tup = NoTuple
         THEN SlotError(s, cache, "cannot extract system attribute from virtual tuple")
         ELSE IF tup.minimal
         THEN SlotError(s, cache, "cannot extract system attribute from minimal tuple")
         ELSE LET r == heap_getsysattr(tup, attnum) IN
              IF r.err # "" THEN SlotError(s, cache, r.err)
              ELSE SlotAnswer(s, cache, r.value, r.isnull)
    ELSE IF attnum <= s.tts_nvalid
    THEN SlotAnswer(s, cache, s.tts_values[attnum], s.tts_isnull[attnum])
    ELSE IF attnum > Len(tupleDesc)
    THEN OutOfRangeAnswer(s, cache)
    ELSE IF drow # NoDataRow
    THEN LET d == slot_deform_datarow(s, drow, tupleDesc) IN
         IF d.err # "" THEN SlotError(d.slot, cache, d.err)
         ELSE SlotAnswer(d.slot, cache, d.slot.tts_values[attnum],
                         d.slot.tts_isnull[attnum])
    ELSE IF slot_no_tuple(tup)
    THEN SlotError(s, cache, "cannot extract attribute from empty tuple slot")
    ELSE LET r == slot_getattr(s, attnum, tup, tupleDesc, attrmiss, cache) IN
         SlotAnswer(r.slot, r.cache, r.value, r.isnull)

\* slot_getallattrs, lines 1706-1749, on a slot of any kind
slot_getallattrs_any(s, tup, drow, tupleDesc, attrmiss, cache) ==
    IF s.tts_nvalid = Len(tupleDesc)
    THEN SlotAnswer(s, cache, NullResult, FALSE)
    ELSE IF drow # NoDataRow
    THEN LET d == slot_deform_datarow(s, drow, tupleDesc) IN
         IF d.err # "" THEN SlotError(d.slot, cache, d.err)
         ELSE SlotAnswer(d.slot, cache, NullResult, FALSE)
    ELSE IF slot_no_tuple(tup)
    THEN SlotError(s, cache, "cannot extract attribute from empty tuple slot")
    ELSE LET r == slot_getallattrs(s, tup, tupleDesc, attrmiss, cache) IN
         SlotAnswer(r.slot, r.cache, NullResult, FALSE)

\* slot_getsomeattrs, lines 1760-1806, on a slot of any kind
slot_getsomeattrs_any(s, tup, drow, attnum, tupleDesc, attrmiss, cache) ==
    IF s.tts_nvalid >= attnum
    THEN SlotAnswer(s, cache, NullResult, FALSE)
    ELSE IF drow # NoDataRow
    THEN LET d == slot_deform_datarow(s, drow, tupleDesc) IN
         IF d.err # "" THEN SlotError(d.slot, cache, d.err)
         ELSE SlotAnswer(d.slot, cache, NullResult, FALSE)
    ELSE IF attnum <= 0 \/ attnum > Len(tupleDesc)
    THEN SlotError(s, cache, "invalid attribute number")
    ELSE IF slot_no_tuple(tup)
    THEN SlotError(s, cache, "cannot extract attribute from empty tuple slot")
    ELSE LET r == slot_getsomeattrs(s, attnum, tup, tupleDesc, attrmiss, cache) IN
         SlotAnswer(r.slot, r.cache, NullResult, FALSE)

\* slot_attisnull, lines 1817-1865
slot_attisnull(s, tup, drow, attnum, tupleDesc, cache) ==
    IF attnum <= 0
    THEN IF tup = NoTuple
         THEN SlotError(s, cache, "cannot extract system attribute from virtual tuple")
         ELSE IF tup.minimal
         THEN SlotError(s, cache, "cannot extract system attribute from minimal tuple")
         ELSE LET r == heap_attisnull(tup, attnum, tupleDesc) IN
              IF r.err # "" THEN SlotError(s, cache, r.err)
              ELSE SlotAnswer(s, cache, NullResult, r.isnull)
    ELSE IF attnum <= s.tts_nvalid
    THEN SlotAnswer(s, cache, NullResult, s.tts_isnull[attnum])
    ELSE IF attnum > Len(tupleDesc)
    THEN SlotAnswer(s, cache, NullResult, TRUE)
    ELSE IF drow # NoDataRow
    THEN LET d == slot_deform_datarow(s, drow, tupleDesc) IN
         IF d.err # "" THEN SlotError(d.slot, cache, d.err)
         ELSE SlotAnswer(d.slot, cache, NullResult, d.slot.tts_isnull[attnum])
    ELSE IF slot_no_tuple(tup)
    THEN SlotError(s, cache, "cannot extract attribute from empty tuple slot")
    ELSE LET r == heap_attisnull(tup, attnum, tupleDesc) IN
         SlotAnswer(s, cache, NullResult, r.isnull)

(***************************************************************************)
(* SpecKinds: one slot that is filled with a physical tuple, a minimal     *)
(* tuple, a DataRow message or a virtual row, or left empty, and asked for *)
(* columns by attribute numbers from below the system attributes to past   *)
(* the schema's last column.                                               *)
(***************************************************************************)
KindSchemas == {<<INT4, TEXT, INT4>>, <<TEXT, INT2>>}

\* the rows of a schema: each column null or its one value
KindValuesOf ==
    [att \in {INT4, INT2, TEXT} |->
        IF att.attbyval THEN TinyValues(att)
        ELSE {PtrDatum(ShortVarlena(Payload(MaxPayload)))}]
KindRows(atts) == Rows(atts, Len(atts), KindValuesOf)

InitKinds ==
    \E atts \in KindSchemas :
        /\ desc = atts
        /\ missing = NoMissing
        /\ attcacheoff = [i \in 1..Len(atts) |-> -1]
        /\ in_values = <<>>
        /\ in_isnull = <<>>
        /\ tuple = NoTuple
        /\ slot = EmptySlot(Len(atts))
        /\ ret = Ret("init", 0, <<>>, <<>>)
        /\ dec = <<>>
        /\ newTuple = NoTuple
        /\ datarow = NoDataRow

\* the text a data node sends for a column
DataRowTexts(att) ==
    IF att.attbyval
    THEN IF att.attlen = 4 THEN {<<55>>} ELSE {<<50, 53, 56>>}
    ELSE {Payload(MaxPayload)}

\* a DataRow message: the column count, then for each field its length
\* (-1 for a null) and its text.  A message of the schema's column count
\* has each field null or not; one that declares a column fewer or a column
\* more has none null.
RECURSIVE DataRowFields(_, _, _)
DataRowFields(atts, n, nulls) ==
    IF n = 0 THEN {<<>>}
    ELSE {f \o ToBytes(0 - 1, 4) : f \in IF nulls THEN DataRowFields(atts, n - 1, nulls)
                                          ELSE {}}
         \cup {f \o ToBytes(Len(text), 4) \o text :
                  f \in DataRowFields(atts, n - 1, nulls),
                  text \in DataRowTexts(atts[IF n <= Len(atts) THEN n ELSE 1])}
DataRows(atts) ==
    UNION {{ToBytes(col_count, 2) \o f
               : f \in DataRowFields(atts, col_count, col_count = Len(atts))}
              : col_count \in (Len(atts) - 1)..(Len(atts) + 1)}

\* the slot is in use
SlotInUse ==
    tuple # NoTuple \/ datarow # NoDataRow \/ slot.tts_nvalid # 0

\* the slot is filled once, before any call on it
SlotIsNew == ~SlotInUse /\ ret.op = "init"

\* ExecClearTuple: the slot gives up what it holds
ExecClearTuple ==
    /\ SlotInUse
    /\ tuple' = NoTuple
    /\ datarow' = NoDataRow
    /\ in_values' = <<>>
    /\ in_isnull' = <<>>
    /\ slot' = [EmptySlot(Len(desc)) EXCEPT !.tts_off = slot.tts_off,
                                            !.tts_slow = slot.tts_slow]
    /\ ret' = Ret("ExecClearTuple", 0, <<>>, <<>>)
    /\ UNCHANGED <<newTuple, dec, desc, missing, attcacheoff>>

\* ExecStoreTuple of a row fetched from the table
ExecStoreTuple ==
    \E row \in KindRows(desc), tdhasoid \in BOOLEAN :
        /\ SlotIsNew
        /\ tuple' = [heap_form_tuple(desc, RowValues(row), RowIsnull(row), tdhasoid)
                        EXCEPT !.t_self = StoredIdentity.t_self,
                               !.t_ctid = StoredIdentity.t_ctid,
                               !.t_tableOid = StoredIdentity.t_tableOid,
                               !.t_oid = IF tdhasoid THEN StoredIdentity.t_oid
                                         ELSE InvalidOid]
        /\ in_values' = RowValues(row)
        /\ in_isnull' = RowIsnull(row)
        /\ ret' = Ret("ExecStoreTuple", Len(desc), <<>>, <<>>)
        /\ UNCHANGED <<newTuple, datarow, dec, desc, missing, attcacheoff, slot>>

\* ExecStoreMinimalTuple of a row built by heap_form_minimal_tuple
ExecStoreMinimalTuple ==
    \E row \in KindRows(desc) :
        /\ SlotIsNew
        /\ tuple' = heap_form_minimal_tuple(desc, RowValues(row), RowIsnull(row), FALSE)
        /\ in_values' = RowValues(row)
        /\ in_isnull' = RowIsnull(row)
        /\ ret' = Ret("ExecStoreMinimalTuple", Len(desc), <<>>, <<>>)
        /\ UNCHANGED <<newTuple, datarow, dec, desc, missing, attcacheoff, slot>>

\* ExecStoreDataRowTuple of a message received from a data node
ExecStoreDataRowTuple ==
    \E msg \in DataRows(desc) :
        /\ SlotIsNew
        /\ datarow' = msg
        /\ ret' = Ret("ExecStoreDataRowTuple", ntohs(msg, 0), <<>>, <<>>)
        /\ UNCHANGED <<newTuple, tuple, in_values, in_isnull, dec, desc, missing,
                       attcacheoff, slot>>

\* ExecStoreVirtualTuple: the owner has written every entry of tts_values /
\* tts_isnull itself
ExecStoreVirtualTuple ==
    \E row \in KindRows(desc) :
        /\ SlotIsNew
        /\ slot' = [slot EXCEPT !.tts_nvalid = Len(desc),
                                !.tts_values = [i \in 1..Len(desc) |->
                                                   IF row[i].isnull THEN NullResult
                                                   ELSE [v |-> row[i].datum.v,
                                                         ptr |-> NoPtr,
                                                         mem |-> row[i].datum.mem]],
                                !.tts_isnull = RowIsnull(row)]
        /\ ret' = Ret("ExecStoreVirtualTuple", Len(desc), <<>>, <<>>)
        /\ UNCHANGED <<newTuple, tuple, datarow, in_values, in_isnull, dec, desc,
                       missing, attcacheoff>>

\* the attribute numbers asked for: the number below the system attributes,
\* the lowest and the highest system attribute, those whose header field a
\* tuple of the model carries, one of the others, 0, the columns of the
\* schema and the number past its last column
KindAttnums ==
    {SysAttr.FirstLowInvalidHeapAttributeNumber, SysAttr.XminGTSAttributeNumber,
     SysAttr.XC_NodeIdAttributeNumber, SysAttr.TableOidAttributeNumber,
     SysAttr.ObjectIdAttributeNumber, SysAttr.SelfItemPointerAttributeNumber}
    \cup 0..(Len(desc) + 1)

RetSlot(op, attnum, r) ==
    IF r.err # "" THEN RetError(op, attnum, r.err)
    ELSE Ret(op, attnum, <<r.value>>, <<r.isnull>>)

KindsSlotGetAttr ==
    \E attnum \in KindAttnums :
        LET r == slot_getattr_any(slot, tuple, datarow, attnum, desc, missing,
                                  attcacheoff) IN
        /\ slot' = r.slot
        /\ attcacheoff' = r.cache
        /\ ret' = RetSlot("slot_getattr", attnum, r)
        /\ UNCHANGED <<newTuple, datarow, dec, desc, missing, in_values, in_isnull, tuple>>

KindsSlotAttIsNull ==
    \E attnum \in KindAttnums :
        LET r == slot_attisnull(slot, tuple, datarow, attnum, desc, attcacheoff) IN
        /\ slot' = r.slot
        /\ attcacheoff' = r.cache
        /\ ret' = RetSlot("slot_attisnull", attnum, r)
        /\ UNCHANGED <<newTuple, datarow, dec, desc, missing, in_values, in_isnull, tuple>>

KindsSlotGetSomeAttrs ==
    \E attnum \in 0..(Len(desc) + 1) :
        LET r == slot_getsomeattrs_any(slot, tuple, datarow, attnum, desc, missing,
                                       attcacheoff) IN
        /\ slot' = r.slot
        /\ attcacheoff' = r.cache
        /\ ret' = IF r.err # "" THEN RetError("slot_getsomeattrs", attnum, r.err)
                  ELSE Ret("slot_getsomeattrs", attnum, <<>>, <<>>)
        /\ UNCHANGED <<newTuple, datarow, dec, desc, missing, in_values, in_isnull, tuple>>

KindsSlotGetAllAttrs ==
    LET r == slot_getallattrs_any(slot, tuple, datarow, desc, missing, attcacheoff) IN
    /\ slot' = r.slot
    /\ attcacheoff' = r.cache
    /\ ret' = IF r.err # "" THEN RetError("slot_getallattrs", 0, r.err)
              ELSE Ret("slot_getallattrs", 0, <<>>, <<>>)
    /\ UNCHANGED <<newTuple, datarow, dec, desc, missing, in_values, in_isnull, tuple>>

NextKinds ==
    \/ ExecClearTuple
    \/ ExecStoreTuple
    \/ ExecStoreMinimalTuple
    \/ ExecStoreDataRowTuple
    \/ ExecStoreVirtualTuple
    \/ KindsSlotGetAttr
    \/ KindsSlotAttIsNull
    \/ KindsSlotGetSomeAttrs
    \/ KindsSlotGetAllAttrs

SpecKinds == InitKinds /\ [][NextKinds]_vars

(***************************************************************************)
(* C15: slot_getattr for a system attribute of a physical tuple.           *)
(***************************************************************************)
\* the attribute numbers that name a system attribute
SystemAttributeNumbers ==
    SysAttr.XminGTSAttributeNumber..SysAttr.SelfItemPointerAttributeNumber

\* the slot holds a physical tuple (not a minimal one)
HoldsPhysicalTuple == tuple # NoTuple /\ ~tuple.minimal

\* the step is a slot_getattr call for an attribute number <= 0 on a slot
\* holding a physical tuple
SystemGetAttrStep ==
    /\ HoldsPhysicalTuple
    /\ ret'.op = "slot_getattr"
    /\ ret'.attnum <= 0

\* the decode loop was bypassed: tts_nvalid, tts_off, tts_slow, tts_values,
\* tts_isnull and the cached offsets are what they were
DecodeBypassed == slot' = slot /\ attcacheoff' = attcacheoff /\ tuple' = tuple

\* the answer is read from the header of the tuple and is not null
AnsweredFromHeader(r, tup) ==
    /\ ~Raised(r)
    /\ r.isnull = <<FALSE>>
    /\ "field" \in DOMAIN r.values[1]
    /\ r.attnum = SysAttr.SelfItemPointerAttributeNumber
           => r.values[1] = [field |-> "t_self", v |-> tup.t_self]
    /\ r.attnum = SysAttr.TableOidAttributeNumber
           => r.values[1] = [field |-> "t_tableOid", v |-> tup.t_tableOid]
    /\ r.attnum = SysAttr.ObjectIdAttributeNumber
           => r.values[1] = [field |-> "t_oid",
                             v |-> IF HEAP_HASOID \in tup.t_infomask THEN tup.t_oid
                                   ELSE InvalidOid]

\* C15 (amended): slot_getattr with an attribute number <= 0 on a slot holding
\* a physical tuple bypasses the decode loop (tts_nvalid, tts_off, tts_slow,
\* tts_values, tts_isnull and the cached offsets are unchanged); for the
\* number of a system attribute it answers from the tuple's header with
\* isnull = false, and for any other number <= 0 (0, or one below the lowest
\* system attribute) it raises "invalid attnum" instead of answering.
C15_SystemColumn ==
    [][SystemGetAttrStep =>
          /\ DecodeBypassed
          /\ ret'.attnum \in SystemAttributeNumbers => AnsweredFromHeader(ret', tuple)
          /\ ret'.attnum \notin SystemAttributeNumbers
                 => Raised(ret') /\ ret'.err = "invalid attnum"]_vars

\* a system attribute was answered from the header of a physical tuple whose
\* slot had decoded columns before
C15_Witness ==
    /\ HoldsPhysicalTuple
    /\ ret.op = "slot_getattr"
    /\ ret.attnum = SysAttr.TableOidAttributeNumber
    /\ ~Raised(ret)
    /\ ret.isnull = <<FALSE>>
    /\ ret.values[1].v = StoredIdentity.t_tableOid
    /\ slot.tts_nvalid > 0
    /\ \E i \in DOMAIN attcacheoff : attcacheoff[i] >= 0

\* C15 as stated: every attribute number <= 0 is answered from the header
\* with isnull = false, the slot and the cached offsets unchanged
C15_Original ==
    [][SystemGetAttrStep => DecodeBypassed /\ AnsweredFromHeader(ret', tuple)]_vars

(***************************************************************************)
(* C16: slot_getattr for an attribute number beyond the schema.            *)
(***************************************************************************)
\* the step is a slot_getattr call for an attribute number greater than the
\* schema's column count
BeyondSchemaStep == ret'.op = "slot_getattr" /\ ret'.attnum > Len(desc)

\* the kinds of slot: a physical tuple, a minimal tuple, a DataRow message,
\* a virtual row (no tuple, every entry valid), an empty slot
SlotKind ==
    IF datarow # NoDataRow THEN "datarow"
    ELSE IF tuple # NoTuple THEN IF tuple.minimal THEN "minimal" ELSE "physical"
    ELSE IF slot.tts_nvalid = Len(desc) THEN "virtual"
    ELSE "empty"

\* C16: slot_getattr with an attribute number greater than the schema's
\* column count answers null without raising an error, and leaves the slot
\* (tts_nvalid, tts_off, tts_slow, tts_values, tts_isnull, its tuple and its
\* DataRow message) and the cached offsets untouched, whatever the slot holds.
C16_BeyondSchema ==
    [][BeyondSchemaStep =>
          /\ ~Raised(ret')
          /\ ret'.isnull = <<TRUE>>
          /\ slot' = slot
          /\ attcacheoff' = attcacheoff
          /\ tuple' = tuple
          /\ datarow' = datarow]_vars

\* null was answered for the column past the schema on a slot holding a
\* DataRow message none of whose fields has been decoded
C16_Witness ==
    /\ ret.op = "slot_getattr"
    /\ ret.attnum = Len(desc) + 1
    /\ ~Raised(ret)
    /\ ret.isnull = <<TRUE>>
    /\ SlotKind = "datarow"
    /\ slot.tts_nvalid = 0

(***************************************************************************)
(* C18: a DataRow message whose column count is not the schema's.          *)
(***************************************************************************)
\* the slot holds a DataRow message that declares a column count different
\* from the schema's
HoldsMismatchedDataRow == datarow # NoDataRow /\ ntohs(datarow, 0) # Len(desc)

\* the step requests a field of the slot: a column of the schema from
\* slot_getattr or slot_attisnull, the first columns from slot_getsomeattrs,
\* all of them from slot_getallattrs
FieldRequestStep ==
    \/ ret'.op \in {"slot_getattr", "slot_attisnull"} /\ ret'.attnum \in 1..Len(desc)
    \/ ret'.op = "slot_getsomeattrs" /\ ret'.attnum >= 1
    \/ ret'.op = "slot_getallattrs"

\* C18: whenever a field is requested from a slot holding a DataRow message
\* that declares a column count different from the schema's, the request
\* ends in the data-corruption error, with tts_nvalid, tts_values and
\* tts_isnull (and the rest of the slot) unchanged: no result is returned.
C18_DataRowMismatch ==
    [][HoldsMismatchedDataRow /\ FieldRequestStep =>
          /\ Raised(ret')
          /\ ret'.err = "ERRCODE_DATA_CORRUPTED"
          /\ ret'.values = <<>>
          /\ slot' = slot
          /\ datarow' = datarow]_vars

\* a column was requested from a message that declares one column more than
\* the schema has, and the request ended in the data-corruption error
C18_Witness ==
    /\ datarow # NoDataRow
    /\ ntohs(datarow, 0) = Len(desc) + 1
    /\ ret.op = "slot_getattr"
    /\ ret.attnum \in 1..Len(desc)
    /\ Raised(ret)
    /\ ret.err = "ERRCODE_DATA_CORRUPTED"
    /\ slot.tts_nvalid = 0

(***************************************************************************)
(* C19: requests that need a physical tuple.                               *)
(***************************************************************************)
\* the step asks slot_getattr or slot_attisnull for a system attribute of a
\* slot without a tuple or with a minimal tuple
SystemColumnWithoutRowStep ==
    /\ ret'.op \in {"slot_getattr", "slot_attisnull"}
    /\ ret'.attnum <= 0
    /\ tuple = NoTuple \/ tuple.minimal

\* the step asks for a column of the schema that is not yet in tts_values
\* of a slot with neither a tuple nor a DataRow message
ColumnWithoutRowStep ==
    /\ tuple = NoTuple
    /\ datarow = NoDataRow
    /\ \/ ret'.op \in {"slot_getattr", "slot_getsomeattrs"}
          /\ ret'.attnum \in (slot.tts_nvalid + 1)..Len(desc)
       \/ ret'.op = "slot_getallattrs" /\ slot.tts_nvalid < Len(desc)

\* C19: a request that needs a physical tuple raises an error and returns no
\* value: slot_getattr / slot_attisnull for a system attribute on a slot
\* without a tuple ("... from virtual tuple") or with a minimal tuple
\* ("... from minimal tuple"), and slot_getattr / slot_getsomeattrs /
\* slot_getallattrs for a column of the schema not yet in tts_values on a
\* slot with neither a tuple nor a DataRow message ("... from empty tuple
\* slot"); the slot is left as it was.
C19_NeedsPhysicalRow ==
    [][/\ SystemColumnWithoutRowStep
          => /\ Raised(ret')
             /\ ret'.values = <<>>
             /\ ret'.err = IF tuple = NoTuple
                           THEN "cannot extract system attribute from virtual tuple"
                           ELSE "cannot extract system attribute from minimal tuple"
             /\ slot' = slot
       /\ ColumnWithoutRowStep
          => /\ Raised(ret')
             /\ ret'.values = <<>>
             /\ ret'.err = "cannot extract attribute from empty tuple slot"
             /\ slot' = slot]_vars

\* slot_getsomeattrs was asked for the columns of an empty slot and raised
\* the error
C19_Witness ==
    /\ SlotKind = "empty"
    /\ ret.op = "slot_getsomeattrs"
    /\ ret.attnum \in 1..Len(desc)
    /\ Raised(ret)
    /\ ret.err = "cannot extract attribute from empty tuple slot"

(***************************************************************************)
(* SpecWide: the encoders up to and beyond the limit of the column count.  *)
(* Rows of a few columns, of exactly MaxTupleAttributeNumber columns, of   *)
(* one and two more, and of twice as many.                                 *)
(***************************************************************************)
WideCounts ==
    {1, 8, 64, MaxTupleAttributeNumber, MaxTupleAttributeNumber + 1,
     MaxTupleAttributeNumber + 2, 2 * MaxTupleAttributeNumber}

\* the columns of a wide row that are null
WideNullPatterns == {"none", "all", "every eighth"}
WideIsnull(n, pattern) ==
    [i \in 1..n |-> CASE pattern = "none" -> FALSE
                      [] pattern = "all" -> TRUE
                      [] OTHER -> i % 8 = 0]

InitWide ==
    \E n \in WideCounts, att \in {CHAR1, INT2}, pattern \in WideNullPatterns :
        /\ desc = [i \in 1..n |-> att]
        /\ missing = NoMissing
        /\ attcacheoff = [i \in 1..n |-> -1]
        /\ in_isnull = WideIsnull(n, pattern)
        /\ in_values = [i \in 1..n |-> IF WideIsnull(n, pattern)[i] THEN NullDatum
                                       ELSE CHOOSE d \in TinyValuesOf[att] : TRUE]
        /\ tuple = NoTuple
        /\ slot = EmptySlot(n)
        /\ ret = Ret("init", 0, <<>>, <<>>)
        /\ dec = <<>>
        /\ newTuple = NoTuple
        /\ datarow = NoDataRow

SpecWide == InitWide /\ [][NextForm]_vars

(***************************************************************************)
(* C17: the limit of the column count.                                     *)
(***************************************************************************)
\* the step is a call of heap_form_tuple or heap_form_minimal_tuple: it
\* built a tuple or raised
FormStep ==
    \/ tuple' # tuple
    \/ ret' # ret /\ ret'.op \in {"heap_form_tuple", "heap_form_minimal_tuple"}

\* the call raised the too-many-columns error
RaisedTooManyColumns(r) == Raised(r) /\ r.err = "ERRCODE_TOO_MANY_COLUMNS"

\* C17: heap_form_tuple and heap_form_minimal_tuple raise the
\* too-many-columns error whenever the schema has more than
\* MaxTupleAttributeNumber columns, and no tuple is built; for a schema of
\* up to MaxTupleAttributeNumber columns they do not raise it and build the
\* tuple with that many columns.
C17_TooManyColumns ==
    [][FormStep =>
          IF Len(desc) > MaxTupleAttributeNumber
          THEN RaisedTooManyColumns(ret') /\ tuple' = tuple /\ tuple = NoTuple
          ELSE /\ ~RaisedTooManyColumns(ret')
               /\ tuple' # NoTuple
               /\ tuple'.natts = Len(desc)]_vars

\* heap_form_minimal_tuple raised the error for a schema of one column more
\* than the limit
C17_Witness ==
    /\ Len(desc) = MaxTupleAttributeNumber + 1
    /\ ret.op = "heap_form_minimal_tuple"
    /\ RaisedTooManyColumns(ret)
    /\ tuple = NoTuple

(***************************************************************************)
(* SpecAlign: a null-terminated string after fixed-width columns, its      *)
(* descriptor declaring each of the alignment classes in turn.  The row is *)
(* sized, built and decoded.                                               *)
(***************************************************************************)
AlignClasses == {"c", "s", "i", "d"}
CStringAligned(attalign) == Attr(-2, attalign, FALSE, "p")

\* the string comes last, after one to three bytes or a whole word
AlignSchemas ==
    UNION {{<<CHAR1, CStringAligned(a)>>,
            <<INT2, CHAR1, CStringAligned(a)>>,
            <<CHAR1, CHAR1, CStringAligned(a)>>,
            <<INT4, CStringAligned(a)>>} : a \in AlignClasses}

AlignValues(att) ==
    IF att.attlen = -2
    THEN {PtrDatum(Payload(n) \o <<0>>) : n \in 0..MaxPayload}
    ELSE TinyValues(att)

InitAlign ==
    \E atts \in AlignSchemas :
    \E row \in [1..Len(atts) -> UNION {AlignValues(atts[i]) : i \in 1..Len(atts)}] :
        /\ \A i \in 1..Len(atts) : row[i] \in AlignValues(atts[i])
        /\ desc = atts
        /\ missing = NoMissing
        /\ attcacheoff = [i \in 1..Len(atts) |-> -1]
        /\ in_values = row
        /\ in_isnull = [i \in 1..Len(atts) |-> FALSE]
        /\ tuple = NoTuple
        /\ slot = EmptySlot(Len(atts))
        /\ ret = Ret("init", 0, <<>>, <<>>)
        /\ dec = <<>>
        /\ newTuple = NoTuple
        /\ datarow = NoDataRow

\* line 213: Assert(att->attalign == 'c') fails for a column of the row
fill_val_assert_fails(tupleDesc) ==
    \E i \in 1..Len(tupleDesc) :
        tupleDesc[i].attlen = -2 /\ tupleDesc[i].attalign # "c"

\* heap_form_tuple of the row.  Where the assertion of line 213 fails, a
\* build with assertions enabled aborts there and a build without them goes
\* on to copy the string.
AlignFormTuple ==
    /\ tuple = NoTuple
    /\ \E assert_enabled \in BOOLEAN :
        IF assert_enabled /\ fill_val_assert_fails(desc)
        THEN /\ ret' = RetError("heap_form_tuple", Len(desc),
                                "TRAP: FailedAssertion(att->attalign == 'c')")
             /\ tuple' = tuple
        ELSE /\ ret' = Ret("heap_form_tuple", Len(desc), <<>>, <<>>)
             /\ tuple' = heap_form_tuple(desc, in_values, in_isnull, FALSE)
    /\ UNCHANGED <<newTuple, datarow, dec, desc, missing, attcacheoff, in_values,
                   in_isnull, slot>>

NextAlign ==
    \/ AlignFormTuple
    \/ ComputeDataSize
    \/ HeapDeformTuple
    \/ NoCacheGetAttr
    \/ SlotGetAllAttrs

SpecAlign == InitAlign /\ [][NextAlign]_vars

(***************************************************************************)
(* C20: alignment padding before a null-terminated string.                 *)
(***************************************************************************)
\* the string column of the row (the last one) and where the fixed-width
\* columns before it end
CStringCol == Len(desc)
RECURSIVE FixedEnd(_, _)
FixedEnd(atts, n) ==
    IF n = 0 THEN 0
    ELSE att_align_nominal(FixedEnd(atts, n - 1), atts[n].attalign) + atts[n].attlen
PrevEnd == FixedEnd(desc, CStringCol - 1)

\* the padding the alignment class the descriptor declares asks for there
DeclaredPadding == att_align_nominal(PrevEnd, desc[CStringCol].attalign) - PrevEnd

\* the bytes each operation left between the end of the previous column and
\* the string: in the size it computed, at the offset it wrote the string
\* to, at the offset it read the string from
SizePadding == ret.attnum - PrevEnd - Len(in_values[CStringCol].mem)
EncodePadding == tuple.ats[CStringCol] - PrevEnd
DecodePadding(datum) == datum.ptr - PrevEnd

Sized == ret.op = "heap_compute_data_size"
Encoded == tuple # NoTuple
DecodedAll == ret.op = "heap_deform_tuple"
DecodedOne == ret.op = "nocachegetattr" /\ ret.attnum = CStringCol
DecodedSlot == tuple # NoTuple /\ slot.tts_nvalid >= CStringCol

HEAP_XMAX_INVALID == "HEAP_XMAX_INVALID"
InfomaskBits ==
    {HEAP_HASNULL, HEAP_HASVARWIDTH, HEAP_HASEXTERNAL, HEAP_HASOID, HEAP_XMAX_INVALID}

FillSchemas ==
    {<<a>> : a \in AttKinds} \cup {<<INT4, TEXT, INT4>>, <<TEXT, CSTRING>>}

FillInputs ==
    UNION { { [desc |-> atts, values |-> RowValues(row), isnull |-> RowIsnull(row)]
              : row \in Rows(atts, Len(atts), SmallValuesOf) }
            : atts \in FillSchemas }

InitFill ==
    \E in \in FillInputs, infomask \in SUBSET InfomaskBits :
        /\ desc = in.desc
        /\ missing = NoMissing
        /\ attcacheoff = [i \in 1..Len(in.desc) |-> -1]
        /\ in_values = in.values
        /\ in_isnull = in.isnull
        /\ tuple = [NoTuple EXCEPT
                        !.t_len = heap_compute_data_size(in.desc, in.values, in.isnull),
                        !.natts = Len(in.desc),
                        !.t_infomask = infomask,
                        !.data = palloc0(heap_compute_data_size(in.desc, in.values,
                                                                in.isnull))]
        /\ slot = EmptySlot(Len(in.desc))
        /\ ret = Ret("init", 0, <<>>, <<>>)
        /\ dec = <<>>
        /\ newTuple = NoTuple
        /\ datarow = NoDataRow

\* heap_fill_tuple(desc, values, isnull, data, data_size, &infomask, bit) on
\* the data area while it is still zeroed
HeapFillTuple ==
    \E hasbit \in BOOLEAN :
        /\ ret.op = "init"
        /\ form_hasnull(in_isnull) => hasbit
        /\ LET st == heap_fill_tuple(desc, in_values, in_isnull, tuple.data,
                         tuple.t_infomask, hasbit,
                         IF hasbit THEN palloc0(BITMAPLEN(Len(desc))) ELSE <<>>)
           IN  /\ tuple' = [tuple EXCEPT !.t_infomask = st.infomask,
                                         !.t_bits = st.bits,
                                         !.data = st.buf,
                                         !.fill = st.data,
                                         !.ats = st.ats,
                                         !.lens = st.lens]
               /\ ret' = [op |-> "heap_fill_tuple", attnum |-> 0, values |-> <<>>,
                          isnull |-> <<>>, infomask |-> tuple.t_infomask]
        /\ UNCHANGED <<newTuple, datarow, dec, desc, missing, attcacheoff, in_values, in_isnull, slot>>

NextFill == HeapFillTuple

SpecFill == InitFill /\ [][NextFill]_vars

(***************************************************************************)
(* C21: the infomask bits heap_fill_tuple computes.                        *)
(***************************************************************************)
ComputedBits == {HEAP_HASNULL, HEAP_HASVARWIDTH, HEAP_HASEXTERNAL}

\* column i of the row is not null and is a non-expanded external reference
HoldsExternal(i) ==
    /\ ~in_isnull[i]
    /\ desc[i].attlen = -1
    /\ VARATT_IS_EXTERNAL(in_values[i].mem)
    /\ ~VARATT_IS_EXTERNAL_EXPANDED(in_values[i].mem)

\* C21: after heap_fill_tuple, whatever the infomask held before, HEAP_HASNULL
\* is set iff some column is null, HEAP_HASVARWIDTH iff some non-null column
\* has attlen -1 or -2, HEAP_HASEXTERNAL iff some non-null column is an
\* external reference that is not an expanded object, and every other bit of
\* the infomask is as it was
C21_FlagsRecomputed ==
    ret.op = "heap_fill_tuple" =>
        /\ (HEAP_HASNULL \in tuple.t_infomask)
               <=> (\E i \in 1..Len(desc) : in_isnull[i])
        /\ (HEAP_HASVARWIDTH \in tuple.t_infomask)
               <=> (\E i \in 1..Len(desc) : ~in_isnull[i] /\ desc[i].attlen \in {-1, -2})
        /\ (HEAP_HASEXTERNAL \in tuple.t_infomask)
               <=> (\E i \in 1..Len(desc) : HoldsExternal(i))
        /\ tuple.t_infomask \ ComputedBits = ret.infomask \ ComputedBits

\* every bit was set before the call; the row has no null and its one
\* variable-length value is an expanded object, which is flattened
C21_Witness ==
    /\ ret.op = "heap_fill_tuple"
    /\ ret.infomask = InfomaskBits
    /\ desc = <<INT4, TEXT, INT4>>
    /\ ~in_isnull[2] /\ VARATT_IS_EXTERNAL_EXPANDED(in_values[2].mem)
    /\ tuple.t_infomask = {HEAP_HASVARWIDTH, HEAP_HASOID, HEAP_XMAX_INVALID}

(***************************************************************************)
(* C22: the flag slow of the decoders ("can't use attcacheoff anymore"),   *)
(* checked under SpecSlot on the state's tuple, cached offsets and slot.   *)
(***************************************************************************)
\* the columns the state's tuple has under the schema
TupleNatts == Min(HeapTupleHeaderGetNatts(tuple), Len(desc))

\* column i (counted from 1) of the tuple is null
ColumnNull(i) == HeapTupleHasNulls(tuple) /\ att_isnull(i - 1, tuple.t_bits)

\* heap_deform_tuple's pass over the first k columns: its values, isnull,
\* off, slow and the cached offsets it leaves
DeformPass(k) ==
    heap_deform_tuple(tuple, SubSeq(desc, 1, k), NoMissing, SubSeq(attcacheoff, 1, k))

\* the same pass from cached offsets that are unset after column j
DeformPassBlind(j, k) ==
    heap_deform_tuple(tuple, SubSeq(desc, 1, k), NoMissing,
                      [i \in 1..k |-> IF i > j THEN 0 - 1 ELSE attcacheoff[i]])

\* slot_deform_tuple(slot, k) on the state's slot, and the same call with
\* every cached offset unset
SlotPass(k) == slot_deform_tuple(slot, k, tuple, desc, attcacheoff)
SlotPassBlind(k) ==
    slot_deform_tuple(slot, k, tuple, desc, [i \in 1..Len(desc) |-> 0 - 1])

\* a null column or a column of variable width (attlen -1 or -2) among the
\* first k
VariableOrNullBy(k) == \E i \in 1..k : ColumnNull(i) \/ desc[i].attlen <= 0

\* a null column, or a variable-length column that the pass finds at an
\* offset that is not aligned for it, among the first k
NullOrUnalignedBy(k) ==
    \E i \in 1..k :
        \/ ColumnNull(i)
        \/ /\ desc[i].attlen = -1
           /\ DeformPass(i - 1).off # att_align_nominal(DeformPass(i - 1).off,
                                                        desc[i].attalign)

\* after slow is set, heap_deform_tuple neither writes nor reads attcacheoff
DeformPassLeavesCache(j, k) ==
    /\ \A i \in 1..k : DeformPass(k).cache[i] =
                           IF i > j THEN attcacheoff[i] ELSE DeformPass(j).cache[i]
    /\ DeformPass(k).values = DeformPassBlind(j, k).values
    /\ DeformPass(k).off = DeformPassBlind(j, k).off

\* the slot resumed on the slow path neither writes nor reads attcacheoff
SlotPassLeavesCache(k) ==
    /\ SlotPass(k).cache = attcacheoff
    /\ SlotPass(k).slot = SlotPassBlind(k).slot

\* C22: a decode pass starts with slow false; after column k, slow is true
\* iff one of the columns 1..k is null or of variable width (a varlena found
\* at an unaligned offset loses the trust before its offset is taken, any
\* other column of variable width once it is decoded); the same holds for
\* the tts_slow a slot keeps between calls and for every call that resumes
\* from it on the same tuple, so the flag once set stays set; and from the
\* column where slow is set on, no attcacheoff is read or written
C22_TrustFlag ==
    tuple # NoTuple =>
        /\ \A k \in 0..TupleNatts :
              /\ DeformPass(k).slow <=> VariableOrNullBy(k)
              /\ \A j \in 0..k : DeformPass(j).slow => DeformPassLeavesCache(j, k)
        /\ slot.tts_nvalid > 0 =>
              (slot.tts_slow <=> VariableOrNullBy(Min(slot.tts_nvalid, TupleNatts)))
        /\ \A k \in slot.tts_nvalid..TupleNatts :
              /\ SlotPass(k).slot.tts_slow <=> VariableOrNullBy(k)
              /\ (slot.tts_nvalid > 0 /\ slot.tts_slow) => SlotPassLeavesCache(k)

\* a slot whose last extracted column is a variable-length value found at
\* an aligned offset, which was cached: slow is set although no column so
\* far is null or unaligned, and columns are still to extract
C22_Witness ==
    /\ tuple # NoTuple
    /\ slot.tts_nvalid > 0
    /\ slot.tts_nvalid < TupleNatts
    /\ slot.tts_slow
    /\ ~NullOrUnalignedBy(slot.tts_nvalid)
    /\ desc[slot.tts_nvalid].attlen = -1
    /\ attcacheoff[slot.tts_nvalid] >= 0
    /\ ret.op \in {"slot_getattr", "slot_getsomeattrs"}

\* C22 as stated: slow is set exactly at the first null column or the first
\* variable-length column found at an offset that is not aligned
C22_Original ==
    tuple # NoTuple =>
        \A k \in 0..TupleNatts : DeformPass(k).slow <=> NullOrUnalignedBy(k)

(***************************************************************************)
(* C23: what slot_getattr leaves in the slot of a physical tuple.          *)
(***************************************************************************)
\* slot_getattr(slot, attnum) answers without decoding: the tuple does not
\* have the column, the column is null in the tuple, or it is dropped
AnsweredWithoutDecoding(attnum) ==
    \/ attnum > HeapTupleHeaderGetNatts(tuple)
    \/ ColumnNull(attnum)
    \/ desc[attnum].attisdropped

\* the step is a slot_getattr call for a column of the schema that is not
\* among the slot's valid entries
GetAttrBeyondValidStep ==
    /\ ret'.op = "slot_getattr"
    /\ slot.tts_nvalid < ret'.attnum
    /\ ret'.attnum <= Len(desc)

\* entries 1..n of the slot are those heap_deform_tuple returns for the tuple
MaterializedUpTo(s, n) ==
    LET d == heap_deform_tuple(tuple, desc, missing, attcacheoff) IN
    \A i \in 1..n : s.tts_isnull[i] = d.isnull[i] /\ s.tts_values[i] = d.values[i]

\* a read of a valid entry is served from the arrays: the slot and the
\* cached offsets stay as they are
ServedFromArrays ==
    tuple # NoTuple =>
        \A i \in 1..slot.tts_nvalid :
            slot_getattr(slot, i, tuple, desc, missing, attcacheoff) =
                [value |-> slot.tts_values[i], isnull |-> slot.tts_isnull[i],
                 slot |-> slot, cache |-> attcacheoff]

\* C23: slot_getattr(slot, attnum) with tts_nvalid < attnum <= the schema's
\* column count on a physical tuple either answers without decoding (the
\* tuple does not have the column, or the column is null in it, or it is
\* dropped) and leaves the slot as it was, or leaves tts_nvalid = attnum
\* with entries 1..attnum holding the decoded row; a read of any valid
\* entry is served from the arrays
C23_Materialized ==
    /\ []ServedFromArrays
    /\ [][GetAttrBeyondValidStep =>
             IF AnsweredWithoutDecoding(ret'.attnum)
             THEN slot' = slot /\ attcacheoff' = attcacheoff
             ELSE slot'.tts_nvalid = ret'.attnum
                  /\ MaterializedUpTo(slot', ret'.attnum)]_vars

\* slot_getattr has decoded up to a column in the middle of the row, past a
\* null column
C23_Witness ==
    /\ ret.op = "slot_getattr"
    /\ slot.tts_nvalid = ret.attnum
    /\ ret.attnum > 1
    /\ ret.attnum < TupleNatts
    /\ ColumnNull(1)
    /\ ret.isnull = <<FALSE>>
    /\ ret.values[1] = slot.tts_values[ret.attnum]

\* C23 as stated: after slot_getattr(slot, attnum) with tts_nvalid < attnum
\* <= the schema's column count, tts_nvalid equals attnum
C23_Original ==
    [][GetAttrBeyondValidStep => slot'.tts_nvalid = ret'.attnum]_vars

(***************************************************************************)
(* C24: the header offset and the recorded length of a row that was built. *)
(***************************************************************************)
\* where the data area starts in the row: t_hoff, which for a minimal tuple
\* counts from MINIMAL_TUPLE_OFFSET bytes before the row
DataOffset(t) == IF t.minimal THEN t.t_hoff - MINIMAL_TUPLE_OFFSET ELSE t.t_hoff

\* the data area starts at a multiple of the maximum alignment, and t_len is
\* that offset plus the bytes the fill of the columns advanced over
RowWellSized(t) ==
    t # NoTuple =>
        /\ t.t_hoff % MAXIMUM_ALIGNOF = 0
        /\ DataOffset(t) % MAXIMUM_ALIGNOF = 0
        /\ t.t_len = DataOffset(t) + t.fill

\* C24 as stated: every row heap_form_tuple, heap_form_minimal_tuple,
\* heap_modify_tuple and expand_tuple return has a header offset that is a
\* multiple of the maximum alignment and a recorded length equal to that
\* offset plus the data bytes written for its columns (for expand_tuple the
\* source's data bytes plus the bytes written for the appended defaults)
C24_Original == RowWellSized(tuple) /\ RowWellSized(newTuple)

\* the same, leaving out the rows expand_tuple returns after it has written
\* a default in the short form
DefaultPacked(i) ==
    /\ i > tuple.natts
    /\ DefaultPresent(i)
    /\ desc[i].attlen = -1
    /\ fill_val_packs(desc[i], missing[i].mem)
RowWellSizedButPacked ==
    /\ RowWellSized(tuple)
    /\ (\A i \in 1..Len(desc) : ~DefaultPacked(i)) => RowWellSized(newTuple)

(***************************************************************************)
(* C25: where slot_deform_tuple starts, checked under SpecSlot on the      *)
(* state's slot: after a tuple is stored the slot has tts_nvalid = 0 and   *)
(* the tts_off and tts_slow of the tuple it held before.                   *)
(***************************************************************************)
\* the slot with its saved offset and flag replaced
SlotSaved(off, slow) == [slot EXCEPT !.tts_off = off, !.tts_slow = slow]

\* slot_deform_tuple(slot, k) does what it does on a slot that saved offset
\* 0 and slow = false
StartsAfresh(k) ==
    slot_deform_tuple(slot, k, tuple, desc, attcacheoff) =
        slot_deform_tuple(SlotSaved(0, FALSE), k, tuple, desc, attcacheoff)

\* the offset column i (counted from 1) is found at by a pass that comes to
\* it with the offset off and the flag slow
OffsetFrom(i, off, slow) ==
    IF ~slow /\ attcacheoff[i] >= 0 THEN attcacheoff[i]
    ELSE att_align_pointer(off, desc[i].attalign, desc[i].attlen, MemFrom(tuple.data, off))

\* slot_deform_tuple(slot, tts_nvalid + 1) takes the next column from the
\* saved offset with the saved flag
ResumesFromSaved ==
    LET i == slot.tts_nvalid + 1
        r == slot_deform_tuple(slot, i, tuple, desc, attcacheoff)
        at == OffsetFrom(i, slot.tts_off, slot.tts_slow)
    IN  IF ColumnNull(i)
        THEN /\ r.slot.tts_isnull[i]
             /\ r.slot.tts_off = slot.tts_off
             /\ r.slot.tts_slow
             /\ r.cache = attcacheoff
        ELSE /\ ~r.slot.tts_isnull[i]
             /\ r.slot.tts_values[i] = fetchatt(desc[i], tuple.data, at)
             /\ r.slot.tts_off =
                    att_addlength_pointer(at, desc[i].attlen, MemFrom(tuple.data, at))
             /\ slot.tts_slow => r.slot.tts_slow /\ r.cache = attcacheoff

\* C25: slot_deform_tuple on a slot with tts_nvalid = 0 starts at offset 0
\* with slow = false, whatever tts_off and tts_slow the slot holds; on a slot
\* with tts_nvalid > 0 it takes the next column from the saved tts_off with
\* the saved tts_slow
C25_StartOrResume ==
    tuple # NoTuple =>
        /\ slot.tts_nvalid = 0 =>
              \A k \in 1..TupleNatts : StartsAfresh(k)
        /\ (slot.tts_nvalid > 0 /\ slot.tts_nvalid < TupleNatts) => ResumesFromSaved

\* a tuple was stored into a slot that was on the slow path at an offset
\* past 0 in the tuple before; decoded, the new tuple's columns are found
\* without losing the trust
C25_Witness ==
    /\ tuple # NoTuple
    /\ ret.op = "heap_form_tuple"
    /\ slot.tts_nvalid = 0
    /\ slot.tts_slow
    /\ slot.tts_off > 0
    /\ ~slot_deform_tuple(slot, 1, tuple, desc, attcacheoff).slot.tts_slow
    /\ slot_deform_tuple(slot, 1, tuple, desc, attcacheoff).slot.tts_values[1]
           = ExpectedValue(1)

(***************************************************************************)
(* C26: which columns of a schema hold a cached offset, and what it is.    *)
(***************************************************************************)
\* the offset of column i (counted from 1) when every column before it is
\* of fixed width: the end of the column before, aligned as the column
\* declares
RECURSIVE NominalOffset(_)
NominalOffset(i) ==
    IF i = 1 THEN 0
    ELSE att_align_nominal(NominalOffset(i - 1) + desc[i - 1].attlen, desc[i].attalign)

\* C26: from a schema with no offset cached, after any sequence of
\* heap_deform_tuple, slot_deform_tuple and nocachegetattr calls on rows of
\* the schema, a column with a cached offset has only fixed-width columns
\* before it, each of them with a cached offset as well, and its offset is
\* the aligned sum of their lengths (0 for the first column); so the cached
\* columns are a prefix of the schema that ends at the first column of
\* variable width at the latest
C26_CachedPrefix ==
    \A i \in 1..Len(desc) :
        attcacheoff[i] >= 0 =>
            /\ \A j \in 1..(i - 1) : attcacheoff[j] >= 0 /\ desc[j].attlen > 0
            /\ attcacheoff[i] = NominalOffset(i)

\* four columns cached, the third after padding and the last a
\* variable-length column, by calls the last of which decoded through the slot
C26_Witness ==
    /\ Len(desc) = 4
    /\ \A i \in 1..4 : attcacheoff[i] >= 0
    /\ attcacheoff[3] > attcacheoff[2] + desc[2].attlen
    /\ desc[4].attlen = -1
    /\ ret.op \in {"slot_getattr", "slot_getsomeattrs", "slot_getallattrs"}

(***************************************************************************)
(* C27: nocachegetattr against heap_deform_tuple, on the state's tuple and *)
(* cached offsets.                                                         *)
(***************************************************************************)
\* nocachegetattr(tuple, k, desc) and heap_deform_tuple(tuple, desc) from
\* the state's cached offsets
FetchedColumn(k) == nocachegetattr(tuple, k, desc, attcacheoff)
DeformedRow == heap_deform_tuple(tuple, desc, missing, attcacheoff)

\* C27: for the tuple of any state and any column k the tuple has and that
\* is not null in it, nocachegetattr returns for k the value
\* heap_deform_tuple returns for column k, from the cached offsets of that
\* state as well as from those nocachegetattr leaves; and when nocachegetattr
\* initializes the offsets of the leading fixed-width columns, its loop ends
\* past the target column (Assert(j > attnum))
C27_FetchAgreesWithDeform ==
    tuple # NoTuple =>
        \A k \in 1..TupleNatts :
            ~ColumnNull(k) =>
                /\ ~DeformedRow.isnull[k]
                /\ FetchedColumn(k).value = DeformedRow.values[k]
                /\ FetchedColumn(k).value =
                       heap_deform_tuple(tuple, desc, missing,
                                         FetchedColumn(k).cache).values[k]
                /\ FetchedColumn(k).reached

\* a tuple whose third column nocachegetattr fetches by initializing the
\* offsets, after padding, while another column later in the tuple is null
C27_Witness ==
    /\ tuple # NoTuple
    /\ TupleNatts >= 4
    /\ ~ColumnNull(3)
    /\ ColumnNull(4)
    /\ FetchedColumn(3).fast
    /\ FetchedColumn(3).reached
    /\ FetchedColumn(3).cache[3] > attcacheoff[3]
    /\ FetchedColumn(3).cache[3] > FetchedColumn(3).cache[2] + desc[2].attlen
    /\ FetchedColumn(3).value = ExpectedValue(3)

(***************************************************************************)
(* SpecMissing: rows with fewer columns than their schema, read through    *)
(* heap_deform_tuple, the slot and expand, over every combination of the   *)
(* flags atthasmissing / attisdropped of an added column and of            *)
(* ammissingPresent of its entry in the Missing-Values table.              *)
(***************************************************************************)
\* an added column of type att under every combination of the two flags
FlagVariants(att) ==
    {[att EXCEPT !.atthasmissing = h, !.attisdropped = d] : h, d \in BOOLEAN}

\* the third column with its entry: added without a default, with one,
\* with one and then dropped, and an entry left present without the flag
LastColumns ==
    { <<INT2, NoEntry>>, <<HasMissing(INT2), MissingEntry(258)>>,
      <<Dropped(HasMissing(INT2)), MissingEntry(258)>>, <<INT2, MissingEntry(258)>> }

\* schemas of three columns, the last two added after rows were stored; the
\* schema has a Missing-Values table, and the second column takes every
\* combination of its two flags and of its entry being present
MissingSchemas ==
    { Schema(<<INT4, a, b[1]>>, <<NoEntry, ea, b[2]>>, 1) :
          a \in FlagVariants(INT4), ea \in {NoEntry, MissingEntry(42)},
          b \in LastColumns }

MissingValuesOf ==
    [att \in {INT4} \cup FlagVariants(INT4) \cup FlagVariants(INT2) |->
        TinyValues(BaseAtt(att))]

InitMissing ==
    \E sch \in MissingSchemas :
        /\ desc = sch.desc
        /\ missing = sch.missing
        /\ attcacheoff = [i \in 1..Len(sch.desc) |-> -1]
        /\ in_values = <<>>
        /\ in_isnull = <<>>
        /\ tuple = NoTuple
        /\ slot = EmptySlot(Len(sch.desc))
        /\ ret = Ret("init", 0, <<>>, <<>>)
        /\ dec = <<>>
        /\ newTuple = NoTuple
        /\ datarow = NoDataRow

\* a row stored when the schema had n columns, fetched and stored into the
\* slot (ExecStoreTuple)
StoreOlderTuple ==
    \E n \in 1..(Len(desc) - 1) :
        \E row \in Rows(desc, n, MissingValuesOf) :
            /\ tuple' = heap_form_tuple(SubSeq(desc, 1, n), RowValues(row),
                                        RowIsnull(row), FALSE)
            /\ in_values' = RowValues(row)
            /\ in_isnull' = RowIsnull(row)
            /\ slot' = [EmptySlot(Len(desc)) EXCEPT !.tts_off = slot.tts_off,
                                                    !.tts_slow = slot.tts_slow]
            /\ newTuple' = NoTuple
            /\ ret' = Ret("heap_form_tuple", n, <<>>, <<>>)
            /\ UNCHANGED <<datarow, dec, desc, missing, attcacheoff>>

\* slot_attisnull(slot, k) on the slot of a physical row
SlotAttIsNull ==
    /\ tuple # NoTuple
    /\ \E attnum \in 1..Len(desc) :
        LET r == slot_attisnull(slot, tuple, datarow, attnum, desc, attcacheoff) IN
        /\ slot' = r.slot
        /\ attcacheoff' = r.cache
        /\ ret' = Ret("slot_attisnull", attnum, <<>>, <<r.isnull>>)
    /\ UNCHANGED <<newTuple, datarow, dec, desc, missing, in_values, in_isnull, tuple>>

NextMissing ==
    \/ StoreOlderTuple
    \/ HeapDeformTuple
    \/ SlotGetAttr
    \/ SlotGetSomeAttrs
    \/ SlotGetAllAttrs
    \/ SlotAttIsNull
    \/ HeapExpandTuple

SpecMissing == InitMissing /\ [][NextMissing]_vars

\* the columns of the schema the state's tuple does not have
BeyondRow == (TupleNatts + 1)..Len(desc)

\* the value and null flag two routes give agree
SameResult(v1, n1, v2, n2) == n1 = n2 /\ (~n1 => v1 = v2)

\* C28: for a row with fewer columns than the schema and every column i
\* beyond the row's count, the value and null flag heap_deform_tuple gives
\* for i (getmissingattr) are the ones slot_getattr returns for i, the ones
\* slot_getsomeattrs / slot_getallattrs leave in tts_values[i] /
\* tts_isnull[i] (slot_getmissingattrs), and the ones a decode of the row
\* heap_expand_tuple returns gives for i, whatever atthasmissing,
\* attisdropped and ammissingPresent are
C28_Original ==
    tuple # NoTuple =>
        \A i \in BeyondRow :
            /\ (ret.op = "slot_getattr" /\ ret.attnum = i /\ slot.tts_nvalid < i) =>
                   SameResult(ret.values[1], ret.isnull[1],
                              DeformedRow.values[i], DeformedRow.isnull[i])
            /\ (\/ ret.op = "slot_getallattrs"
                \/ ret.op = "slot_getsomeattrs" /\ ret.attnum >= i) =>
                   SameResult(slot.tts_values[i], slot.tts_isnull[i],
                              DeformedRow.values[i], DeformedRow.isnull[i])
            /\ ret.op = "heap_expand_tuple" =>
                   SameResult(ExpandedDecode.values[i], ExpandedDecode.isnull[i],
                              DeformedRow.values[i], DeformedRow.isnull[i])

\* the schema is of the kind the catalog builds: an entry of the
\* Missing-Values table is present exactly for a column with atthasmissing
\* that is not dropped
CatalogConsistent ==
    \A i \in 1..Len(desc) :
        missing[i].ammissingPresent <=> (desc[i].atthasmissing /\ ~desc[i].attisdropped)

\* the row expand returned has a null bitmap whenever its has-nulls flag is
\* set (it lacks one when an added column without a default precedes the
\* first added column with one and the source row has no bitmap)
ExpandedHasBitmap ==
    ret.op = "heap_expand_tuple" =>
        (HEAP_HASNULL \in newTuple.t_infomask => HasNullsRepresentation(newTuple))

\* the four routes agree under a schema of that kind, on a row expand gave
\* its bitmap
RoutesAgreeWhenConsistent == (CatalogConsistent /\ ExpandedHasBitmap) => C28_Original

\* the routes through the slot and through heap_deform_tuple disagree on a
\* column whose entry is present although the column is dropped
RoutesDisagreeOnDropped ==
    /\ ret.op = "slot_getallattrs"
    /\ TupleNatts = 1
    /\ desc[2].attisdropped /\ desc[2].atthasmissing /\ missing[2].ammissingPresent
    /\ ~slot.tts_isnull[2] /\ slot.tts_values[2].v = 42
    /\ DeformedRow.isnull[2]

(***************************************************************************)
(* slot_getattr on a column the slot has already materialized, against the *)
(* same call on a slot that has not.                                       *)
(***************************************************************************)
\* slot_getattr(slot, k) on a slot the state's tuple has just been stored
\* into: nothing is materialized
FirstFetch(k) ==
    slot_getattr(EmptySlot(Len(desc)), k, tuple, desc, missing, attcacheoff)

\* the column is dropped in the schema and the row holds a value for it
DroppedWithValue(k) ==
    /\ k <= TupleNatts
    /\ desc[k].attisdropped
    /\ ~ColumnNull(k)

\* C29: the value and null flag a slot_getattr(slot, k) call returned, after
\* any earlier slot_getsomeattrs / slot_getallattrs / slot_getattr calls on
\* the slot, are the ones the call returns when it is the first to fetch
\* column k of the row
C29_Original ==
    (tuple # NoTuple /\ ret.op = "slot_getattr") =>
        SameResult(ret.values[1], ret.isnull[1],
                   FirstFetch(ret.attnum).value, FirstFetch(ret.attnum).isnull)

\* the same, but for a dropped column the row holds a value for, and for
\* a column beyond the row's count under a schema of another kind than the
\* catalog builds
FetchIndependentOfHistory ==
    (/\ tuple # NoTuple
     /\ ret.op = "slot_getattr"
     /\ ~DroppedWithValue(ret.attnum)
     /\ (ret.attnum > TupleNatts /\ missing # NoMissing) => CatalogConsistent)
        => C29_Original

\* slot_getattr returned the value the row holds for a dropped column,
\* from the slot's arrays
DroppedValueServed ==
    /\ ret.op = "slot_getattr"
    /\ DroppedWithValue(ret.attnum)
    /\ slot.tts_nvalid >= ret.attnum
    /\ ~ret.isnull[1] /\ ret.values[1].v = 7
    /\ FirstFetch(ret.attnum).isnull

(***************************************************************************)
(* slot_attisnull against slot_getattr, under SpecMissing.                 *)
(***************************************************************************)
\* the null flag slot_getattr(slot, k) returns in the state
GetAttrIsNull(k) == slot_getattr(slot, k, tuple, desc, missing, attcacheoff).isnull

\* C30: in any state of the slot and for any column k of the schema, the
\* answer of slot_attisnull(slot, k) is the null flag slot_getattr(slot, k)
\* returns in that state, dropped columns and columns beyond the row's count
\* included; and slot_attisnull leaves the slot of a physical row as it was
C30_Original ==
    /\ [](ret.op = "slot_attisnull" => ret.isnull[1] = GetAttrIsNull(ret.attnum))
    /\ [][ret'.op = "slot_attisnull" => slot' = slot /\ attcacheoff' = attcacheoff]_vars

\* column k has atthasmissing exactly when it is not dropped and its entry
\* in the Missing-Values table is present
FlagMatchesEntry(k) ==
    desc[k].atthasmissing <=> (missing[k].ammissingPresent /\ ~desc[k].attisdropped)

\* the two agree except for a dropped column the row holds a value for that
\* is not materialized, and for a column beyond the row's count whose
\* atthasmissing does not match its entry
NullTestAgrees ==
    (/\ ret.op = "slot_attisnull"
     /\ ~(DroppedWithValue(ret.attnum) /\ ret.attnum > slot.tts_nvalid)
     /\ ret.attnum > TupleNatts => FlagMatchesEntry(ret.attnum))
        => ret.isnull[1] = GetAttrIsNull(ret.attnum)

\* slot_attisnull leaves the slot and the cached offsets alone
NullTestChangesNothing ==
    [][ret'.op = "slot_attisnull" => slot' = slot /\ attcacheoff' = attcacheoff]_vars

\* slot_attisnull answered "not null" for a dropped column of a schema the
\* catalog builds, for which slot_getattr returns null
NullTestOnDropped ==
    /\ ret.op = "slot_attisnull"
    /\ CatalogConsistent
    /\ DroppedWithValue(ret.attnum)
    /\ slot.tts_nvalid < ret.attnum
    /\ ~ret.isnull[1]
    /\ GetAttrIsNull(ret.attnum)

====
